---- MODULE Spec2Model ----
(***************************************************************************)
(* Model of the protocol core of the bee node (wusyong/bee-p):             *)
(*   - the per-connection PeerHandshakerWorker                             *)
(*     (bee-protocol/src/worker/peer/handshaker.rs),                       *)
(*   - the KickstartWorker (bee-protocol/src/worker/kickstart.rs),         *)
(*   - the shared Peer Manager map, tangle watermarks and requester queue  *)
(*     these workers read and write.                                       *)
(***************************************************************************)
EXTENDS Integers, Naturals, Sequences, FiniteSets, TLC

VARIABLES
    handshaked_peers,   \* PeerManager.handshaked_peers: epid -> resolved address
    peer,               \* per connection: self.peer (epid, address, origin)
    status,             \* per connection: self.status (HandshakeStatus)
    pc,                 \* per connection: position of PeerHandshakerWorker::run
    receiver,           \* per connection: messages waiting in the receiver channel
    resolved,           \* per connection: the address validate_handshake returned
    cur,                \* per connection: the message process_message handled last
    log,                \* per connection: the calls the worker made, in order
    invalid_messages,   \* Protocol metrics: invalid_messages counter
    lsmi,               \* tangle: latest solid milestone index
    lmi,                \* tangle: latest milestone index
    pruning_index,      \* tangle: pruning index
    milestone_requester,\* milestone requester queue: entries <<index, epid>>
    milestone_solidifier_worker, \* channel to the Milestone Solidifier: events sent
    kick_pc,            \* KickstartWorker::run position
    kick_shutdown,      \* KickstartWorker: the shutdown one-shot has been signalled
    kick_last,          \* KickstartWorker: what the last poll read and decided
    kick_log,           \* KickstartWorker: the calls the worker made, in order
    ms_queue,           \* MilestoneSolidifierWorker: queue, the Vec of pending indices
    next_ms_index,      \* MilestoneSolidifierWorker: the next index to solidify
    sol_handled,        \* MilestoneSolidifierWorker: number of events handled
    sol_last,           \* MilestoneSolidifierWorker: what the last event did
    attempts,           \* MilestoneSolidifierWorker: indices attempted, in order
    vertices,           \* tangle: hashes of the transactions it holds
    solid,              \* tangle: hashes whose metadata has the solid flag
    requested_flag,     \* tangle: hashes whose metadata has the requested flag
    milestones,         \* tangle: milestone indices whose hash is known
    requested_transactions, \* Protocol.requested_transactions: hash -> index
    transaction_requester,  \* transaction requester queue: entries <<hash, index>>
    hasher_worker,      \* channel to the Hasher: events waiting, in order
    hasher_shutdown,    \* Hasher: the shutdown signal has been raised
    hasher_pc,          \* Hasher: position of the worker loop
    hasher,             \* BatchStream.hasher: the inputs added to the BatchHasher
    events,             \* BatchStream.events: the events of the current batch
    cache,              \* BatchStream.cache: the HashCache, oldest entry first
    known_transactions, \* Protocol metrics: known_transactions counter
    processor_worker,   \* channel to the Processor: events sent, in order
    hasher_last,        \* Hasher: what the last step of the worker did
    hasher_taken,       \* Hasher: the events taken off the channel, in order
    req_last,           \* requesters: the last request_milestone / request_transaction call
    req_count,          \* requesters: number of request calls made
    tangle_started,     \* TangleWorker::start has run
    snapshot_index,     \* MsTangle: the snapshot index
    PROTOCOL,           \* static PROTOCOL: 0 is null, n the Protocol made by the n-th init
    worker_shutdown,    \* Protocol.<worker>.1: the Mutex<Option<oneshot::Sender>>
    worker_rx,          \* the shutdown receiver each spawned worker holds
    spawned,            \* how many times each worker was spawned
    channels,           \* how many channels Protocol::init created
    signals,            \* the shutdown sends made so far, in order, with their results
    proto_last,         \* the last call of init, shutdown or get
    proto_calls,        \* number of such calls made
    contexts,           \* Protocol.contexts: endpoint id -> SenderContext (0: none)
    sender_workers,     \* the SenderWorkers spawned, four per context, by context
    sender_exits,       \* how many SenderWorkers ended on their own
    senders_last,       \* the last call of senders_add or senders_remove
    senders_calls,      \* number of such calls made
    message_from,       \* the message to be written
    wire,               \* the buffer of message_from.size() bytes
    message_to,         \* the message read from the buffer
    message_pc,         \* "new", "written" (into_bytes done) or "read" (from_bytes done)
    bundle_builders,    \* OutgoingBundleBuilder.builders: the TransactionBuilders, in order
    bundle_stage,       \* "raw", "sealed", "signed", "attached", "built", "gone" or "panicked"
    bundle_pushed,      \* the TransactionBuilders as they were pushed
    bundle_last,        \* the last call on the bundle builder and what it returned
    m_bug_tags,         \* the obsolete tags of transaction 0 whose bundle hash has the M-bug
    bus_listeners,      \* Bus.listeners: event name -> the listeners, in registration order
    bus_locks,          \* the shards of the listener map write-locked by a guard
    bus_stack,          \* the running dispatch calls, the innermost last
    bus_last,           \* the last dispatch that returned and the listeners it invoked
    bus_blocked,        \* <<held, wanted>> once the thread waits for a lock it holds itself
    same_shard          \* whether the two event names fall into one shard of the map

solidifierVars == <<ms_queue, next_ms_index, sol_handled, sol_last, attempts>>
msTangleVars == <<vertices, solid, requested_flag, milestones,
                  requested_transactions, transaction_requester>>
hasherVars == <<hasher_worker, hasher_shutdown, hasher_pc, hasher, events, cache,
                known_transactions, processor_worker, hasher_last, hasher_taken>>
requestVars == <<req_last, req_count>>
tangleStartVars == <<tangle_started, snapshot_index>>
protocolVars == <<PROTOCOL, worker_shutdown, worker_rx, spawned, channels, signals,
                  proto_last, proto_calls>>
sendersVars == <<contexts, sender_workers, sender_exits, senders_last, senders_calls>>
messageVars == <<message_from, wire, message_to, message_pc>>
bundleVars == <<bundle_builders, bundle_stage, bundle_pushed, bundle_last, m_bug_tags>>
busVars == <<bus_listeners, bus_locks, bus_stack, bus_last, bus_blocked, same_shard>>
finalVars == <<bundleVars, busVars>>
\* everything but the outgoing bundle builder and the event bus
preFinalVars == <<handshaked_peers, peer, status, pc, receiver, resolved, cur, log,
                   invalid_messages, lsmi, lmi, pruning_index, milestone_requester,
                   milestone_solidifier_worker, kick_pc, kick_shutdown, kick_last, kick_log,
                   solidifierVars, msTangleVars, hasherVars, requestVars, tangleStartVars,
                   protocolVars, sendersVars, messageVars>>
preBundleVars == <<preFinalVars, busVars>>
preBusVars == <<preFinalVars, bundleVars>>
laterVars == <<requestVars, tangleStartVars, protocolVars, sendersVars, messageVars,
               finalVars>>
workerVars == <<solidifierVars, msTangleVars, hasherVars, laterVars>>

vars == <<handshaked_peers, peer, status, pc, receiver, resolved, cur, log,
          invalid_messages, lsmi, lmi, pruning_index, milestone_requester,
          milestone_solidifier_worker, kick_pc, kick_shutdown, kick_last, kick_log,
          workerVars>>

hsVars == <<handshaked_peers, peer, status, pc, receiver, resolved, cur, log,
            invalid_messages>>
tangleVars == <<lsmi, lmi, pruning_index>>
kickVars == <<milestone_solidifier_worker, kick_pc, kick_shutdown, kick_last, kick_log>>

(***************************************************************************)
(* Bounds of the model.                                                    *)
(***************************************************************************)
\* u64 is modelled with TsBits bits (TLC integers are 32-bit)
TsBits == 16
\* longest receiver content drawn for the single-connection specification
MaxInboxV == 1
\* longest receiver content drawn for the one-connection session specification
MaxInboxS == 2
\* longest receiver content drawn for the two-connection specification
MaxInboxH == 1
\* the tangle watermarks range over MsBase .. MsBase + MaxGap
MaxGap == 10
MsBase == 100
\* the milestones the Milestone Solidifier is told about are 1 .. MaxMs
MaxMs == 2
\* the Milestone Solidifier handles at most MaxSolEvents events
MaxSolEvents == 4
\* sponge::BATCH_SIZE, the largest batch of the Hasher (64 in the node)
BATCH_SIZE == 4
\* ProtocolConfig: the capacity of the Hasher's cache
CacheSize == 2
\* the Hasher is sent at most MaxHasherEvents events
MaxHasherEvents == 5
\* request_milestone and request_transaction are called at most MaxRequests times
MaxRequests == 3
\* Protocol::init, shutdown and get are called at most MaxProtocolCalls times
MaxProtocolCalls == 3
\* senders_add and senders_remove are called at most MaxSendersCalls times
MaxSendersCalls == 3
\* at most MaxSenderExits SenderWorkers end on their own
MaxSenderExits == 2
\* i64 is modelled with I64Bits bits
I64Bits == 3
\* the network supply, scaled with i64 (constants::IOTA_SUPPLY)
IOTA_SUPPLY == 1
\* an obsolete tag has TagTrits trits
TagTrits == 2
\* at most MaxBundle transactions are pushed into a bundle
MaxBundle == 3
\* at most MaxInputs inputs are handed to sign
MaxInputs == 2
\* at most MaxListeners listeners are registered on the bus
MaxListeners == 3
\* the configured handshake window, in seconds (ProtocolConfig.handshake_window)
handshake_window == 1

(***************************************************************************)
(* Values.                                                                 *)
(***************************************************************************)
Conns == {"c1", "c2"}
NoEpid == "None"
NoAddr == [ip |-> "none", port |-> 0]
IPs == {"10.0.0.1", "10.0.0.2"}
Ports == {15600, 15601}
Addresses == [ip : IPs, port : Ports]

\* ProtocolConfig: coordinator.public_key_bytes, mwm
CooKey == "coo"
OtherKey == "other"
ConfMwm == 14
OtherMwm == ConfMwm - 5
\* message::MESSAGES_VERSIONS, the versions this node supports
MESSAGES_VERSIONS == {2}

\* Header.message_type values: Handshake::ID and another message's id
HandshakeID == "Handshake"
HeartbeatID == "Heartbeat"

Modulus == 2 ^ TsBits
Window == handshake_window * 1000
\* SystemTime::now() as milliseconds: the reading of the local clock
LocalTime == 3 * Window

(***************************************************************************)
(* Messages on the wire.  A message is its header's type, whether its      *)
(* bytes decode (tlv_from_bytes) and, for a Handshake, the decoded fields. *)
(***************************************************************************)
NoHandshake == [port |-> 0, timestamp |-> 0, coordinator |-> "", mwm |-> 0, versions |-> {}]

HandshakeMsg(h) == [type |-> HandshakeID, decodes |-> TRUE, hs |-> h]
MalformedMsg == [type |-> HandshakeID, decodes |-> FALSE, hs |-> NoHandshake]
OtherMsg == [type |-> HeartbeatID, decodes |-> TRUE, hs |-> NoHandshake]

\* peer timestamps around the local clock: both edges of the window, on both sides
PeerTimes == {LocalTime - Window - 1, LocalTime - Window, LocalTime,
              LocalTime + Window, LocalTime + Window + 1}

WideHandshakes == [port : Ports, timestamp : PeerTimes, coordinator : {CooKey, OtherKey},
                   mwm : {ConfMwm, OtherMwm}, versions : {{1}, {1, 2}}]
GoodHandshake(p) == [port |-> p, timestamp |-> LocalTime, coordinator |-> CooKey,
                     mwm |-> ConfMwm, versions |-> {1, 2}]
NarrowHandshakes == {GoodHandshake(p) : p \in Ports}
                    \cup {[GoodHandshake(15600) EXCEPT !.mwm = OtherMwm],
                          [GoodHandshake(15600) EXCEPT !.timestamp = LocalTime + 1]}

WideMessages == {HandshakeMsg(h) : h \in WideHandshakes} \cup {MalformedMsg, OtherMsg}
NarrowMessages == {HandshakeMsg(h) : h \in NarrowHandshakes} \cup {MalformedMsg, OtherMsg}

SeqsUpTo(S, n) == UNION {[1..k -> S] : k \in 0..n}

(***************************************************************************)
(* u64 / i64 arithmetic of the timestamp check, at TsBits bits.            *)
(***************************************************************************)
\* a - b on unsigned values, wrapped (what a build without overflow checks computes)
WrappingSub(a, b) == (a - b + Modulus) % Modulus
\* `as i64`
AsSigned(x) == IF x >= Modulus \div 2 THEN x - Modulus ELSE x
\* i64::abs, wrapped: the minimum value is its own absolute value
WrappingAbs(x) == IF x = -(Modulus \div 2) THEN x ELSE IF x < 0 THEN -x ELSE x
\* `as u64`
AsUnsigned(x) == (x + Modulus) % Modulus

\* ((timestamp - handshake.timestamp) as i64).abs() as u64
TimestampDiff(timestamp, peer_timestamp) ==
    AsUnsigned(WrappingAbs(AsSigned(WrappingSub(timestamp, peer_timestamp))))

\* the arithmetic faults (panics) in a build with overflow checks
TimestampDiffOverflows(timestamp, peer_timestamp) ==
    \/ peer_timestamp > timestamp
    \/ AsSigned(WrappingSub(timestamp, peer_timestamp)) = -(Modulus \div 2)

\* message::messages_supported_version: Ok iff a version is shared
messages_supported_version(versions) == versions \cap MESSAGES_VERSIONS # {}

(***************************************************************************)
(* PeerHandshakerWorker::validate_handshake.  The result is the kind of    *)
(* outcome (Ok, a HandshakeError, or Panic), the resolved address of an Ok *)
(* and the worker's status after the call.                                 *)
(***************************************************************************)
Result(k, a, s) == [kind |-> k, address |-> a, status |-> s]

\* mutant of ResolveAddress: an Inbound peer keeps the port of its connection
ResolveAddress_PeerPort(p, handshake) ==
    IF p.origin = "Outbound"
    THEN IF p.address.port # handshake.port THEN NoAddr ELSE p.address
    ELSE p.address

\* the address of lines 202-215, NoAddr for an Outbound port mismatch
ResolveAddress(p, handshake) ==
    IF p.origin = "Outbound"
    THEN IF p.address.port # handshake.port THEN NoAddr ELSE p.address
    ELSE [ip |-> p.address.ip, port |-> handshake.port]

\* the scan of lines 217-222
AlreadyHandshaked(peers, address) ==
    \E e \in DOMAIN peers : peers[e] = address

\* lines 181-185: the timestamps differ by more than the window
InvalidTimestampDiff(timestamp, handshake) ==
    TimestampDiff(timestamp, handshake.timestamp) > Window

\* lines 187-189
CoordinatorMismatch(handshake) == CooKey # handshake.coordinator

\* mutant of MwmMismatch: the minimum weight magnitude is not compared
MwmMismatch_Skipped(handshake) == FALSE

\* lines 191-196
MwmMismatch(handshake) == ConfMwm # handshake.mwm

\* lines 198-200
UnsupportedVersion(handshake) == ~messages_supported_version(handshake.versions)

\* mutant of validate_handshake: a port mismatch marks the connection as a
\* duplicate too
validate_handshake_PortDuplicate(p, st, handshake, timestamp, overflow_checks, peers) ==
    IF overflow_checks /\ TimestampDiffOverflows(timestamp, handshake.timestamp)
    THEN Result("Panic", NoAddr, st)
    ELSE IF InvalidTimestampDiff(timestamp, handshake)
    THEN Result("InvalidTimestampDiff", NoAddr, st)
    ELSE IF CoordinatorMismatch(handshake)
    THEN Result("CoordinatorMismatch", NoAddr, st)
    ELSE IF MwmMismatch(handshake)
    THEN Result("MwmMismatch", NoAddr, st)
    ELSE IF UnsupportedVersion(handshake)
    THEN Result("UnsupportedVersion", NoAddr, st)
    ELSE IF ResolveAddress(p, handshake) = NoAddr
    THEN Result("PortMismatch", NoAddr, "Duplicate")
    ELSE IF AlreadyHandshaked(peers, ResolveAddress(p, handshake))
    THEN Result("AlreadyHandshaked", NoAddr, "Duplicate")
    ELSE Result("Ok", ResolveAddress(p, handshake), st)

validate_handshake(p, st, handshake, timestamp, overflow_checks, peers) ==
    IF overflow_checks /\ TimestampDiffOverflows(timestamp, handshake.timestamp)
    THEN Result("Panic", NoAddr, st)
    ELSE IF InvalidTimestampDiff(timestamp, handshake)
    THEN Result("InvalidTimestampDiff", NoAddr, st)
    ELSE IF CoordinatorMismatch(handshake)
    THEN Result("CoordinatorMismatch", NoAddr, st)
    ELSE IF MwmMismatch(handshake)
    THEN Result("MwmMismatch", NoAddr, st)
    ELSE IF UnsupportedVersion(handshake)
    THEN Result("UnsupportedVersion", NoAddr, st)
    ELSE IF ResolveAddress(p, handshake) = NoAddr
    THEN Result("PortMismatch", NoAddr, st)
    ELSE IF AlreadyHandshaked(peers, ResolveAddress(p, handshake))
    THEN Result("AlreadyHandshaked", NoAddr, "Duplicate")
    ELSE Result("Ok", ResolveAddress(p, handshake), st)

(***************************************************************************)
(* Shared structures.                                                      *)
(***************************************************************************)
\* PeerManager::handshake: the peer becomes a handshaked peer under its epid
PeerManagerHandshake(peers, epid, address) == (epid :> address) @@ peers

\* WaitPriorityQueue::insert on the milestone requester queue: a key (the
\* milestone index) that is already pending is not inserted again
QueueInsert(queue, entry) ==
    IF \E i \in 1..Len(queue) : queue[i][1] = entry[1] THEN queue ELSE Append(queue, entry)

\* request_milestone pushing the entry whether or not the index is pending
request_milestone_Push(queue, index, epid) == Append(queue, <<index, epid>>)

\* Protocol::request_milestone(index, epid)
request_milestone(queue, index, epid) == QueueInsert(queue, <<index, epid>>)

\* Protocol::request_latest_milestone: index 0 stands for the latest milestone
request_latest_milestone(queue, epid) == request_milestone(queue, 0, epid)

(***************************************************************************)
(* PeerHandshakerWorker: run and process_message, one connection c.        *)
(***************************************************************************)
\* run, lines 99-120: the worker sends its own Handshake once on entry
SendHandshake(c) ==
    /\ pc[c] = "start"
    /\ log' = [log EXCEPT ![c] = Append(@, <<"SendMessage", HandshakeID>>)]
    /\ pc' = [pc EXCEPT ![c] = "fetch"]
    /\ UNCHANGED <<handshaked_peers, peer, status, receiver, resolved, cur,
                   invalid_messages, tangleVars, milestone_requester, kickVars, workerVars>>

\* run, line 122: fetch_message returns None (shutdown, or the peer's stream
\* ended).  A shutdown with messages still waiting behaves like the same run
\* with a shorter receiver content, so only the drained receiver is modelled.
FetchNone(c) ==
    /\ pc[c] = "fetch"
    /\ receiver[c] = <<>>
    /\ pc' = [pc EXCEPT ![c] = "exit"]
    /\ UNCHANGED <<handshaked_peers, peer, status, receiver, resolved, cur, log,
                   invalid_messages, tangleVars, milestone_requester, kickVars, workerVars>>

\* process_message without the metric of lines 264 and 270
ProcessInvalid_NoMetric(c) ==
    /\ pc[c] = "fetch"
    /\ receiver[c] # <<>>
    /\ LET m == Head(receiver[c]) IN
        /\ m.type # HandshakeID \/ ~m.decodes
        /\ cur' = [cur EXCEPT ![c] = [msg |-> m, result |-> "Invalid"]]
    /\ receiver' = [receiver EXCEPT ![c] = Tail(@)]
    /\ log' = [log EXCEPT ![c] = Append(@, <<"invalid_messages_inc">>)]
    /\ UNCHANGED <<handshaked_peers, peer, status, pc, resolved, invalid_messages,
                   tangleVars, milestone_requester, kickVars, workerVars>>

\* process_message, lines 267-271 and 261-265: a message that is no Handshake,
\* or a Handshake that does not decode
ProcessInvalid(c) ==
    /\ pc[c] = "fetch"
    /\ receiver[c] # <<>>
    /\ LET m == Head(receiver[c]) IN
        /\ m.type # HandshakeID \/ ~m.decodes
        /\ cur' = [cur EXCEPT ![c] = [msg |-> m, result |-> "Invalid"]]
    /\ receiver' = [receiver EXCEPT ![c] = Tail(@)]
    /\ invalid_messages' = invalid_messages + 1
    /\ log' = [log EXCEPT ![c] = Append(@, <<"invalid_messages_inc">>)]
    /\ UNCHANGED <<handshaked_peers, peer, status, pc, resolved,
                   tangleVars, milestone_requester, kickVars, workerVars>>

\* process_message, lines 233-236 with validate_handshake, up to the await of
\* line 240; the loop test of lines 126-128 after an error
ProcessHandshake(c) ==
    /\ pc[c] = "fetch"
    /\ receiver[c] # <<>>
    /\ LET m == Head(receiver[c]) IN
        /\ m.type = HandshakeID /\ m.decodes
        /\ \E overflow_checks \in BOOLEAN :
            LET r == validate_handshake(peer[c], status[c], m.hs, LocalTime,
                                        overflow_checks, handshaked_peers) IN
            /\ cur' = [cur EXCEPT ![c] = [msg |-> m, result |-> r.kind]]
            /\ status' = [status EXCEPT ![c] = r.status]
            /\ resolved' = [resolved EXCEPT ![c] = r.address]
            /\ pc' = [pc EXCEPT ![c] =
                   CASE r.kind = "Panic" -> "panicked"
                     [] r.kind = "Ok" -> "promote"
                     [] r.status = "Duplicate" -> "exit"
                     [] OTHER -> "fetch"]
            /\ log' = [log EXCEPT ![c] =
                   IF r.kind \in {"Ok", "Panic"} THEN @ ELSE Append(@, <<"Err", r.kind>>)]
    /\ receiver' = [receiver EXCEPT ![c] = Tail(@)]
    /\ UNCHANGED <<handshaked_peers, peer, invalid_messages,
                   tangleVars, milestone_requester, kickVars, workerVars>>

\* process_message, line 240: peer_manager.handshake(epid, address)
Promote(c) ==
    /\ pc[c] = "promote"
    /\ handshaked_peers' = PeerManagerHandshake(handshaked_peers, peer[c].epid, resolved[c])
    /\ log' = [log EXCEPT ![c] = Append(@, <<"handshake", peer[c].epid, resolved[c]>>)]
    /\ pc' = [pc EXCEPT ![c] = "complete"]
    /\ UNCHANGED <<peer, status, receiver, resolved, cur, invalid_messages,
                   tangleVars, milestone_requester, kickVars, workerVars>>

\* mutant of CompletionCalls: the heartbeat is sent before the event is dispatched
CompletionCalls_HeartbeatFirst(epid, address, ls, pr, lm) ==
    << <<"send_heartbeat", epid, ls, pr, lm>>,
       <<"HandshakeCompleted", epid, address>>,
       <<"request_latest_milestone", epid>>,
       <<"Done">> >>

\* the calls of lines 242-255, in the order the worker makes them
CompletionCalls(epid, address, ls, pr, lm) ==
    << <<"HandshakeCompleted", epid, address>>,
       <<"send_heartbeat", epid, ls, pr, lm>>,
       <<"request_latest_milestone", epid>>,
       <<"Done">> >>

\* process_message, lines 242-255, and the break of lines 126-128
Complete(c) ==
    /\ pc[c] = "complete"
    /\ log' = [log EXCEPT ![c] =
           @ \o CompletionCalls(peer[c].epid, resolved[c], lsmi, pruning_index, lmi)]
    /\ milestone_requester' = request_latest_milestone(milestone_requester, peer[c].epid)
    /\ status' = [status EXCEPT ![c] = "Done"]
    /\ pc' = [pc EXCEPT ![c] = "exit"]
    /\ UNCHANGED <<handshaked_peers, peer, receiver, resolved, cur, invalid_messages,
                   tangleVars, kickVars, workerVars>>

\* what run does after the loop for a status, lines 131-170: the calls it makes
ExitCalls(st, epid) ==
    CASE st = "Done" -> << <<"PeerWorker", epid>> >>
      [] st = "Duplicate" -> <<>>
      [] OTHER -> <<>>

\* run, lines 131-172
Exit(c) ==
    /\ pc[c] = "exit"
    /\ IF status[c] = "Done" /\ peer[c].epid \notin DOMAIN handshaked_peers
       THEN /\ pc' = [pc EXCEPT ![c] = "panicked"]
            /\ UNCHANGED log
       ELSE /\ pc' = [pc EXCEPT ![c] = "stopped"]
            /\ log' = [log EXCEPT ![c] = @ \o ExitCalls(status[c], peer[c].epid)]
    /\ UNCHANGED <<handshaked_peers, peer, status, receiver, resolved, cur,
                   invalid_messages, tangleVars, milestone_requester, kickVars, workerVars>>

Handshaker(c) ==
    \/ SendHandshake(c)
    \/ FetchNone(c)
    \/ ProcessInvalid(c)
    \/ ProcessHandshake(c)
    \/ Promote(c)
    \/ Complete(c)
    \/ Exit(c)

NextHandshake == \E c \in Conns : Handshaker(c)

\* the Peer Manager drops a peer whose connection was closed: the entry
\* leaves handshaked_peers, whatever the peer's handshaker is doing
PeerManagerRemove(epid) ==
    /\ epid \in DOMAIN handshaked_peers
    /\ handshaked_peers' = [e \in DOMAIN handshaked_peers \ {epid} |-> handshaked_peers[e]]
    /\ UNCHANGED <<peer, status, pc, receiver, resolved, cur, log, invalid_messages,
                   tangleVars, milestone_requester, kickVars, workerVars>>

\* the handshakers, and the disconnects the network reports meanwhile
NextDisconnect ==
    \/ NextHandshake
    \/ \E epid \in Conns : PeerManagerRemove(epid)

(***************************************************************************)
(* The tangle watermarks (MsTangle) as the other workers move them.        *)
(***************************************************************************)
\* MsTangle::update_latest_milestone_index, by the Milestone Validator
UpdateLatestMilestone ==
    /\ lmi < MsBase + MaxGap
    /\ lmi' = lmi + 1
    /\ UNCHANGED <<hsVars, lsmi, pruning_index, milestone_requester, kickVars, workerVars>>

\* MsTangle::update_latest_solid_milestone_index, once a milestone is solid
UpdateLatestSolidMilestone ==
    /\ lsmi < lmi
    /\ lsmi' = lsmi + 1
    /\ UNCHANGED <<hsVars, lmi, pruning_index, milestone_requester, kickVars, workerVars>>

(***************************************************************************)
(* KickstartWorker::run.                                                   *)
(***************************************************************************)
MS_BATCH_SIZE == 5

NoPoll == [ls |-> 0, lm |-> 0, peers |-> 0, shutdown |-> FALSE, fired |-> FALSE]

\* mutant of KickstartReady: the gap is compared with <= instead of <
KickstartReady_Le(npeers, next_ms, latest_ms) ==
    npeers # 0 /\ next_ms + MS_BATCH_SIZE <= latest_ms

\* the condition of line 43
KickstartReady(npeers, next_ms, latest_ms) ==
    npeers # 0 /\ next_ms + MS_BATCH_SIZE < latest_ms

\* mutant of RequestRange: the closed range next_ms..=(next_ms + MS_BATCH_SIZE)
RequestRange_Closed(next_ms) == [i \in 1..(MS_BATCH_SIZE + 1) |-> next_ms + i - 1]

\* the range of line 46, next_ms..(next_ms + MS_BATCH_SIZE), in order
RequestRange(next_ms) == [i \in 1..MS_BATCH_SIZE |-> next_ms + i - 1]

\* the calls of lines 44-48, in the order the worker makes them
KickstartCalls(next_ms) ==
    << <<"SetNextMilestone", next_ms>> >>
    \o [i \in 1..Len(RequestRange(next_ms)) |->
            <<"request_milestone", RequestRange(next_ms)[i], NoEpid>>]

\* mutant of KickstartAfterFire: the loop is not left after the requests
KickstartAfterFire_NoBreak == "polling"

\* line 49: the break after the requests
KickstartAfterFire == "stopped"

RECURSIVE RequestAll(_, _)
\* the loop of lines 46-48 on the requester queue
RequestAll(queue, indices) ==
    IF indices = <<>> THEN queue
    ELSE RequestAll(request_milestone(queue, Head(indices), NoEpid), Tail(indices))

\* the oneshot shutdown sender fires (or is dropped)
KickstartShutdown ==
    /\ ~kick_shutdown
    /\ kick_shutdown' = TRUE
    /\ UNCHANGED <<hsVars, tangleVars, milestone_requester, milestone_solidifier_worker,
                   kick_pc, kick_last, kick_log, workerVars>>

\* one pass of the loop of lines 35-53, after the sleep
KickstartPoll ==
    /\ kick_pc = "polling"
    /\ LET next_ms == lsmi + 1
           latest_ms == lmi
           npeers == Cardinality(DOMAIN handshaked_peers)
           fire == ~kick_shutdown /\ KickstartReady(npeers, next_ms, latest_ms)
       IN
        /\ kick_last' = [ls |-> lsmi, lm |-> lmi, peers |-> npeers,
                         shutdown |-> kick_shutdown, fired |-> fire]
        /\ IF kick_shutdown
           THEN /\ kick_pc' = "stopped"
                /\ UNCHANGED <<milestone_solidifier_worker, milestone_requester, kick_log>>
           ELSE IF fire
           THEN /\ milestone_solidifier_worker' =
                       Append(milestone_solidifier_worker, <<"SetNextMilestone", next_ms>>)
                /\ milestone_requester' = RequestAll(milestone_requester, RequestRange(next_ms))
                /\ kick_log' = kick_log \o KickstartCalls(next_ms)
                /\ kick_pc' = KickstartAfterFire
           ELSE UNCHANGED <<milestone_solidifier_worker, milestone_requester, kick_log, kick_pc>>
    /\ UNCHANGED <<hsVars, tangleVars, kick_shutdown, workerVars>>

NextKick ==
    \/ KickstartPoll
    \/ KickstartShutdown
    \/ UpdateLatestMilestone
    \/ UpdateLatestSolidMilestone
    \/ \E c \in Conns : Handshaker(c)

(***************************************************************************)
(* The tangle the Milestone Solidifier walks.  Milestone i is the           *)
(* transaction MilestoneHash(i); its trunk is milestone i - 1 (the solid    *)
(* entry point for the first) and its branch the transaction TailHash,      *)
(* which approves the solid entry point.                                    *)
(***************************************************************************)
MsIndexes == 1..MaxMs
SolidEntryPoint == <<"sep", 0>>
MilestoneHash(i) == <<"m", i>>
TailHash == <<"t", 0>>
Hashes == {MilestoneHash(i) : i \in MsIndexes} \cup {TailHash}

trunk(h) ==
    IF h[1] = "m" /\ h[2] > 1 THEN MilestoneHash(h[2] - 1) ELSE SolidEntryPoint

branch(h) == IF h[1] = "m" THEN TailHash ELSE SolidEntryPoint

\* a transaction arrives: it is flagged requested when it was requested
\* (a milestone may have been requested by index), and is no longer awaited
InsertTransaction ==
    \E h \in Hashes \ vertices :
    \E by_index \in {FALSE, h[1] = "m"} :
        /\ vertices' = vertices \cup {h}
        /\ requested_flag' = IF by_index \/ h \in DOMAIN requested_transactions
                             THEN requested_flag \cup {h} ELSE requested_flag
        /\ requested_transactions' =
              [k \in DOMAIN requested_transactions \ {h} |-> requested_transactions[k]]
        /\ UNCHANGED <<hsVars, tangleVars, milestone_requester, kickVars, laterVars, solidifierVars,
                       solid, milestones, transaction_requester, hasherVars>>

\* the propagator flags a transaction solid once its parents are
MarkSolid ==
    \E h \in vertices \ solid :
        /\ {trunk(h), branch(h)} \subseteq solid \cup {SolidEntryPoint}
        /\ solid' = solid \cup {h}
        /\ UNCHANGED <<hsVars, tangleVars, milestone_requester, kickVars, laterVars, solidifierVars,
                       vertices, requested_flag, milestones, requested_transactions,
                       transaction_requester, hasherVars>>

\* the milestone validator records the hash of a milestone the tangle holds
AddMilestone ==
    \E i \in MsIndexes \ milestones :
        /\ MilestoneHash(i) \in vertices
        /\ milestones' = milestones \cup {i}
        /\ UNCHANGED <<hsVars, tangleVars, milestone_requester, kickVars, laterVars, solidifierVars,
                       vertices, solid, requested_flag, requested_transactions,
                       transaction_requester, hasherVars>>

\* the transaction requester takes its first entry and asks a peer for it; the
\* hash is tracked in requested_transactions until the transaction arrives
TransactionRequesterTake ==
    /\ transaction_requester # <<>>
    /\ LET entry == Head(transaction_requester) IN
          requested_transactions' =
             IF entry[1] \in DOMAIN requested_transactions THEN requested_transactions
             ELSE (entry[1] :> entry[2]) @@ requested_transactions
    /\ transaction_requester' = Tail(transaction_requester)
    /\ UNCHANGED <<hsVars, tangleVars, milestone_requester, kickVars, laterVars, solidifierVars,
                   vertices, solid, requested_flag, milestones, hasherVars>>

\* Protocol::request_transaction
request_transaction(requester, hash, index) == QueueInsert(requester, <<hash, index>>)

(***************************************************************************)
(* MilestoneSolidifierWorker (worker/solidifier/milestone.rs).              *)
(***************************************************************************)
\* Ord::cmp
Cmp(a, b) == IF a < b THEN "Less" ELSE IF a = b THEN "Equal" ELSE "Greater"

\* save_index with the comparator the other way round
SaveIndexCmp_Natural(index, target_index) == Cmp(index, target_index)

\* save_index, line 73: the comparator handed to binary_search_by
SaveIndexCmp(index, target_index) == Cmp(target_index, index)

\* slice::binary_search_by over q[lo .. hi - 1]: the position of the target,
\* or the position at which it keeps the order the comparator assumes
RECURSIVE binary_search_by(_, _, _, _)
binary_search_by(q, target_index, lo, hi) ==
    IF lo >= hi THEN [found |-> FALSE, pos |-> lo]
    ELSE LET mid == lo + ((hi - lo) \div 2)
             c == SaveIndexCmp(q[mid], target_index)
         IN IF c = "Equal" THEN [found |-> TRUE, pos |-> mid]
            ELSE IF c = "Less" THEN binary_search_by(q, target_index, mid + 1, hi)
            ELSE binary_search_by(q, target_index, lo, mid)

\* Vec::insert
VecInsert(q, pos, x) == SubSeq(q, 1, pos - 1) \o <<x>> \o SubSeq(q, pos, Len(q))

\* save_index, lines 71-76
save_index(target_index, q) ==
    LET r == binary_search_by(q, target_index, 1, Len(q) + 1)
    IN IF r.found THEN q ELSE VecInsert(q, r.pos, target_index)

\* the match closure without the exception for the milestone's own hash
WalkMatches_NoTarget(hash, target_hash) ==
    /\ hash \notin requested_flag
    /\ hash \notin solid
    /\ hash \notin DOMAIN requested_transactions

\* trigger_solidification_unchecked, lines 52-56: the match closure of the walk
WalkMatches(hash, target_hash) ==
    /\ hash \notin requested_flag \/ hash = target_hash
    /\ hash \notin solid
    /\ hash \notin DOMAIN requested_transactions

\* traversal::visit_parents_depth_first: parents is the stack of hashes to
\* visit; a vertex that matches has its trunk and branch pushed, a hash the
\* tangle does not hold is reported missing unless it is a solid entry point
RECURSIVE visit_parents_depth_first(_, _, _, _, _)
visit_parents_depth_first(parents, visited, matched, missing, target_hash) ==
    IF parents = <<>> THEN [matched |-> matched, missing |-> missing]
    ELSE LET hash == parents[Len(parents)]
             rest == SubSeq(parents, 1, Len(parents) - 1)
         IN IF hash \in visited
            THEN visit_parents_depth_first(rest, visited, matched, missing, target_hash)
            ELSE IF hash \in vertices
            THEN IF WalkMatches(hash, target_hash)
                 THEN visit_parents_depth_first(rest \o <<trunk(hash), branch(hash)>>,
                         visited \cup {hash}, matched \cup {hash}, missing, target_hash)
                 ELSE visit_parents_depth_first(rest, visited \cup {hash}, matched,
                         missing, target_hash)
            ELSE visit_parents_depth_first(rest, visited \cup {hash}, matched,
                    IF hash = SolidEntryPoint THEN missing ELSE Append(missing, hash),
                    target_hash)

\* trigger_solidification_unchecked, lines 62-64
RECURSIVE RequestMissing(_, _, _)
RequestMissing(requester, missing, target_index) ==
    IF missing = <<>> THEN requester
    ELSE RequestMissing(request_transaction(requester, Head(missing), target_index),
                        Tail(missing), target_index)

\* the loop test with "at most" in place of "equal"
Attemptable_AtMost(index, next) == index <= next

\* start, line 107: the popped index is the one to solidify next
Attemptable(index, next) == index = next

\* trigger_solidification_unchecked, lines 36-69, for the index popped from
\* the queue pending; gives the new next_ms_index, the requester queue and a
\* record of what the attempt did
trigger_solidification_unchecked(target_index, next, requester, pending) ==
    LET known == target_index \in milestones
        target_hash == MilestoneHash(target_index)
        walked == known /\ target_hash \notin solid
        w == IF walked
             THEN visit_parents_depth_first(<<target_hash>>, {}, {}, <<>>, target_hash)
             ELSE [matched |-> {}, missing |-> <<>>]
        after == IF walked THEN target_index + 1 ELSE next
    IN [next |-> after,
        requester |-> RequestMissing(requester, w.missing, target_index),
        attempt |-> [index |-> target_index,
                     pending |-> pending,
                     known |-> known,
                     was_solid |-> known /\ target_hash \in solid,
                     matched |-> w.matched,
                     missing |-> w.missing,
                     requests |-> [k \in 1..Len(w.missing) |-> <<w.missing[k], target_index>>],
                     next_before |-> next,
                     next_after |-> after]]

\* start, lines 106-114: the pop loop
RECURSIVE SolidifyPending(_, _, _, _)
SolidifyPending(q, next, requester, done) ==
    IF q = <<>>
    THEN [queue |-> q, next |-> next, requester |-> requester, attempts |-> done]
    ELSE LET index == q[Len(q)]
             popped == SubSeq(q, 1, Len(q) - 1)
         IN IF Attemptable(index, next)
            THEN LET r == trigger_solidification_unchecked(index, next, requester, q)
                 IN SolidifyPending(popped, r.next, r.requester, Append(done, r.attempt))
            ELSE [queue |-> Append(popped, index), next |-> next,
                  requester |-> requester, attempts |-> done]

NoSolEvent == [index |-> 0, before |-> <<>>, saved |-> <<>>, after |-> <<>>,
               attempts |-> <<>>]

\* start, lines 104-115: one MilestoneSolidifierWorkerEvent(index)
SolidifierEvent ==
    /\ sol_handled < MaxSolEvents
    /\ \E index \in MsIndexes :
         LET saved == save_index(index, ms_queue)
             r == SolidifyPending(saved, next_ms_index, transaction_requester, <<>>)
         IN /\ ms_queue' = r.queue
            /\ next_ms_index' = r.next
            /\ transaction_requester' = r.requester
            /\ attempts' = attempts \o [k \in 1..Len(r.attempts) |-> r.attempts[k].index]
            /\ sol_last' = [index |-> index, before |-> ms_queue, saved |-> saved,
                            after |-> r.queue, attempts |-> r.attempts]
    /\ sol_handled' = sol_handled + 1
    /\ UNCHANGED <<hsVars, tangleVars, milestone_requester, kickVars, laterVars, vertices, solid,
                   requested_flag, milestones, requested_transactions, hasherVars>>

NextSolidifier ==
    \/ SolidifierEvent
    \/ InsertTransaction
    \/ MarkSolid
    \/ AddMilestone
    \/ TransactionRequesterTake

(***************************************************************************)
(* HasherWorker and BatchStream (worker/transaction/hasher.rs).  An event   *)
(* is [from, bytes]; bytes are named by a number, 0 naming bytes that are   *)
(* no valid ternary encoding.                                               *)
(***************************************************************************)
BATCH_SIZE_THRESHOLD == 3

InvalidBytes == 0
HasherPeers == {"p1", "p2"}
HasherEvent(from, bytes) == [from |-> from, bytes |-> bytes]

\* poll_next, lines 189-193: uncompress_transaction_bytes and
\* Trits::try_from_raw, which fails on bytes that encode no trits
ValidEncoding(bytes) == bytes # InvalidBytes
Decode(bytes) == <<"trits", bytes>>

\* the CurlP hash of one transaction's trits
CurlHash(trits) == <<"hash", trits[2]>>

\* BatchHasher::hash_unbatched: one sponge run for each input
hash_unbatched(inputs) == [k \in DOMAIN inputs |-> CurlHash(inputs[k])]

\* BatchHasher::hash_batched: the inputs are multiplexed into lanes, one
\* transformation runs over all lanes, lane k is demultiplexed into hash k
hash_batched(inputs) ==
    LET lanes == [k \in DOMAIN inputs |-> inputs[k]]
        transformed == [k \in DOMAIN lanes |-> CurlHash(lanes[k])]
    IN [k \in 1..Len(inputs) |-> transformed[k]]

\* HashCache::insert: FALSE when the bytes are in the cache (they become the
\* most recent entry), TRUE when they were added, the least recent entry
\* leaving a full cache
CacheHit(c, bytes) == \E k \in DOMAIN c : c[k] = bytes
CacheInsert(c, bytes) ==
    LET others == SelectSeq(c, LAMBDA b : b # bytes)
        kept == IF Len(others) >= CacheSize
                THEN SubSeq(others, Len(others) - CacheSize + 2, Len(others))
                ELSE others
    IN Append(kept, bytes)

\* trigger_hashing with the threshold counted among the small batches
UseBatched_Above(batch_size) == ~(batch_size <= BATCH_SIZE_THRESHOLD)

\* trigger_hashing, line 59: the batched sponge unless the batch is small
UseBatched(batch_size) == ~(batch_size < BATCH_SIZE_THRESHOLD)

\* send_hashes pairing the hashes with the events in the opposite order
send_hashes_Reversed(evs, hashes) ==
    [k \in 1..Len(evs) |->
        [hash |-> hashes[Len(evs) + 1 - k], from |-> evs[k].from, bytes |-> evs[k].bytes]]

\* send_hashes, lines 69-90: events.drain(..).zip(hashes), one
\* ProcessorWorkerEvent for each pair
send_hashes(evs, hashes) ==
    LET n == IF Len(evs) < Len(hashes) THEN Len(evs) ELSE Len(hashes)
    IN [k \in 1..n |->
          [hash |-> hashes[k], from |-> evs[k].from, bytes |-> evs[k].bytes]]

\* poll_next with an empty batch yielded too
PendingYields_Always(batch_size) == TRUE

\* poll_next, lines 170-176: the receiver is pending
PendingYields(batch_size) == batch_size # 0

\* poll_next with no cache
AfterInsert_NoCache(inserted, valid) == IF ~valid THEN "panic" ELSE "added"

\* poll_next, lines 180-195: what becomes of an event taken off the receiver
AfterInsert(inserted, valid) ==
    IF ~inserted THEN "known" ELSE IF ~valid THEN "panic" ELSE "added"

\* what the worker did last; batch_size is the size poll_next yielded
HasherStep(kind, batch_size, path, sent) ==
    [kind |-> kind, batch_size |-> batch_size, path |-> path, sent |-> sent]

\* the events sent to the Hasher so far
HasherSent == [k \in DOMAIN hasher_taken |->
                  HasherEvent(hasher_taken[k].from, hasher_taken[k].bytes)] \o hasher_worker

\* the events a peer may send next: bytes not sent before (numbered in the
\* order of their first arrival), bytes sent before, or invalid bytes
PeerOfBytes(bytes) == IF bytes % 2 = 1 THEN "p1" ELSE "p2"
OtherPeer(p) == IF p = "p1" THEN "p2" ELSE "p1"
NextEvents ==
    LET used == {HasherSent[k].bytes : k \in DOMAIN HasherSent} \ {InvalidBytes}
        fresh == Cardinality(used) + 1
    IN {HasherEvent(PeerOfBytes(fresh), fresh)}
       \cup {HasherEvent(OtherPeer(PeerOfBytes(b)), b) : b \in used}
       \cup {HasherEvent("p1", InvalidBytes)}

\* a peer's message handler sends an event to the Hasher
HasherSend ==
    /\ Len(HasherSent) < MaxHasherEvents
    /\ \E event \in NextEvents : hasher_worker' = Append(hasher_worker, event)
    /\ UNCHANGED <<hsVars, tangleVars, milestone_requester, kickVars, laterVars, solidifierVars,
                   msTangleVars, hasher_shutdown, hasher_pc, hasher, events, cache,
                   known_transactions, processor_worker, hasher_last, hasher_taken>>

\* the node raises the shutdown signal of the worker
HasherShutdown ==
    /\ ~hasher_shutdown
    /\ hasher_shutdown' = TRUE
    /\ UNCHANGED <<hsVars, tangleVars, milestone_requester, kickVars, laterVars, solidifierVars,
                   msTangleVars, hasher_worker, hasher_pc, hasher, events, cache,
                   known_transactions, processor_worker, hasher_last, hasher_taken>>

\* poll_next, lines 161-165 and 168-203: one turn of the loop in which the
\* receiver has an event
HasherTakeEvent ==
    /\ hasher_pc = "poll"
    /\ Len(hasher) # BATCH_SIZE
    /\ ~hasher_shutdown
    /\ hasher_worker # <<>>
    /\ LET event == Head(hasher_worker)
           batch_size == Len(hasher)
           inserted == ~CacheHit(cache, event.bytes)
           outcome == AfterInsert(inserted, ValidEncoding(event.bytes))
           full == outcome = "added" /\ batch_size = BATCH_SIZE - 1
       IN /\ cache' = CacheInsert(cache, event.bytes)
          /\ hasher_taken' = Append(hasher_taken,
                [from |-> event.from, bytes |-> event.bytes, outcome |-> outcome])
          /\ known_transactions' =
                IF outcome = "known" THEN known_transactions + 1 ELSE known_transactions
          /\ hasher' = IF outcome = "added" THEN Append(hasher, Decode(event.bytes)) ELSE hasher
          /\ events' = IF outcome = "added" THEN Append(events, event) ELSE events
          /\ hasher_pc' = IF outcome = "panic" THEN "panicked"
                          ELSE IF full THEN "hash" ELSE "poll"
          /\ hasher_last' = IF full THEN HasherStep("yield", BATCH_SIZE, "none", <<>>)
                            ELSE HasherStep(outcome, batch_size, "none", <<>>)
    /\ hasher_worker' = Tail(hasher_worker)
    /\ UNCHANGED <<hsVars, tangleVars, milestone_requester, kickVars, laterVars, solidifierVars,
                   msTangleVars, hasher_shutdown, processor_worker>>

\* poll_next, lines 161-165 and 170-176: the batch is full, or the receiver is
\* pending and the batch is not empty
HasherYield ==
    /\ hasher_pc = "poll"
    /\ IF Len(hasher) = BATCH_SIZE THEN TRUE
       ELSE ~hasher_shutdown /\ hasher_worker = <<>> /\ PendingYields(Len(hasher))
    /\ hasher_pc' = "hash"
    /\ hasher_last' = HasherStep("yield", Len(hasher), "none", <<>>)
    /\ UNCHANGED <<hsVars, tangleVars, milestone_requester, kickVars, laterVars, solidifierVars,
                   msTangleVars, hasher_worker, hasher_shutdown, hasher, events, cache,
                   known_transactions, processor_worker, hasher_taken>>

\* mutant of HasherEnd: the pending batch is hashed and forwarded before the
\* stream ends
HasherEnd_Flush ==
    /\ hasher_pc = "poll"
    /\ Len(hasher) # BATCH_SIZE
    /\ hasher_shutdown
    /\ hasher_pc' = "stopped"
    /\ hasher_last' = HasherStep("end", Len(hasher), "none", <<>>)
    /\ processor_worker' = processor_worker \o send_hashes(events, hash_unbatched(hasher))
    /\ hasher' = <<>>
    /\ events' = <<>>
    /\ UNCHANGED <<hsVars, tangleVars, milestone_requester, kickVars, laterVars, solidifierVars,
                   msTangleVars, hasher_worker, hasher_shutdown, cache,
                   known_transactions, hasher_taken>>

\* poll_next, lines 205-207, and start, lines 110-114: the receiver has ended
HasherEnd ==
    /\ hasher_pc = "poll"
    /\ Len(hasher) # BATCH_SIZE
    /\ hasher_shutdown
    /\ hasher_pc' = "stopped"
    /\ hasher_last' = HasherStep("end", Len(hasher), "none", <<>>)
    /\ UNCHANGED <<hsVars, tangleVars, milestone_requester, kickVars, laterVars, solidifierVars,
                   msTangleVars, hasher_worker, hasher_shutdown, hasher, events, cache,
                   known_transactions, processor_worker, hasher_taken>>

\* trigger_hashing, lines 54-67, with send_hashes
HasherTrigger ==
    /\ hasher_pc = "hash"
    /\ LET batch_size == hasher_last.batch_size
           batched == UseBatched(batch_size)
           hashes == IF batched THEN hash_batched(hasher) ELSE hash_unbatched(hasher)
           sent == send_hashes(events, hashes)
       IN /\ processor_worker' = processor_worker \o sent
          /\ hasher_last' = HasherStep("flush", batch_size,
                               IF batched THEN "batched" ELSE "unbatched", sent)
    /\ hasher' = <<>>
    /\ events' = <<>>
    /\ hasher_pc' = "poll"
    /\ UNCHANGED <<hsVars, tangleVars, milestone_requester, kickVars, laterVars, solidifierVars,
                   msTangleVars, hasher_worker, hasher_shutdown, cache,
                   known_transactions, hasher_taken>>

NextHasher ==
    \/ HasherSend
    \/ HasherShutdown
    \/ HasherTakeEvent
    \/ HasherYield
    \/ HasherEnd
    \/ HasherTrigger

(***************************************************************************)
(* The callers of Protocol::request_milestone and request_transaction      *)
(* (protocol/helpers.rs): any worker, for any index or hash, at any time.  *)
(***************************************************************************)
RequestCall(kind, key, entry, before) ==
    [kind |-> kind, key |-> key, entry |-> entry, before |-> before]

\* Protocol::request_milestone(index, epid); index 0 asks for the latest
RequestMilestone ==
    /\ req_count < MaxRequests
    /\ \E index \in MsIndexes \cup {0}, epid \in Conns \cup {NoEpid} :
          /\ milestone_requester' = request_milestone(milestone_requester, index, epid)
          /\ req_last' = RequestCall("milestone", index, <<index, epid>>, milestone_requester)
    /\ req_count' = req_count + 1
    /\ UNCHANGED <<hsVars, tangleVars, kickVars, solidifierVars, msTangleVars, hasherVars,
                   tangleStartVars, protocolVars, sendersVars, messageVars, finalVars>>

\* Protocol::request_transaction(hash, index)
RequestTransaction ==
    /\ req_count < MaxRequests
    /\ \E hash \in Hashes, index \in MsIndexes :
          /\ transaction_requester' = request_transaction(transaction_requester, hash, index)
          /\ req_last' = RequestCall("transaction", hash, <<hash, index>>, transaction_requester)
    /\ req_count' = req_count + 1
    /\ UNCHANGED <<hsVars, tangleVars, milestone_requester, kickVars, solidifierVars,
                   vertices, solid, requested_flag, milestones, requested_transactions,
                   hasherVars, tangleStartVars, protocolVars, sendersVars, messageVars, finalVars>>

NextRequest ==
    \/ RequestMilestone
    \/ RequestTransaction

(***************************************************************************)
(* TangleWorker::start (worker/tangle.rs) and the workers that run once    *)
(* the tangle is registered.                                               *)
(***************************************************************************)
\* the snapshot indices the node may be started from
SnapshotIndexes == {MsBase, MsBase + 2}

\* mutant of StartLatestMilestone: the latest index is left as MsTangle::new
\* made it
StartLatestMilestone_Unset(index) == 0

\* line 48, update_latest_milestone_index(config.index())
StartLatestMilestone(index) == index

\* lines 39-57: the four watermarks are set to the snapshot index
TangleWorkerStart ==
    /\ ~tangle_started
    /\ \E index \in SnapshotIndexes :
          /\ lsmi' = index
          /\ lmi' = StartLatestMilestone(index)
          /\ snapshot_index' = index
          /\ pruning_index' = index
    /\ tangle_started' = TRUE
    /\ UNCHANGED <<hsVars, milestone_requester, kickVars, solidifierVars, msTangleVars,
                   hasherVars, requestVars, protocolVars, sendersVars, messageVars, finalVars>>

\* the workers that depend on the tangle run after TangleWorker::start
NextTangle ==
    \/ TangleWorkerStart
    \/ /\ tangle_started
       /\ \/ KickstartPoll
          \/ KickstartShutdown
          \/ UpdateLatestMilestone
          \/ UpdateLatestSolidMilestone

(***************************************************************************)
(* The Protocol singleton (protocol/protocol.rs): init, shutdown, get.     *)
(***************************************************************************)
\* the spawns of lines 178-212, in order
StartOrder ==
    <<"transaction", "transaction_responder", "milestone_responder",
      "transaction_requester", "milestone_requester", "milestone_validator",
      "milestone_solidifier", "broadcaster", "status">>

\* the blocks of lines 216-271, in order
ShutdownOrder ==
    <<"transaction", "transaction_responder", "milestone_responder",
      "transaction_requester", "milestone_requester", "milestone_validator",
      "milestone_solidifier", "broadcaster">>

\* the channels created at lines 112-138
ChannelsPerInit == 15

\* the elements of a sequence
Range(q) == {q[k] : k \in DOMAIN q}
Workers == Range(StartOrder)
CoreWorkers == Range(ShutdownOrder)

ProtocolCall(call, outcome, sent) == [call |-> call, outcome |-> outcome, sent |-> sent]

\* mutant of AlreadyInitialized: the null check of line 107 left out
AlreadyInitialized_Never(protocol) == FALSE

\* line 107: !PROTOCOL.is_null()
AlreadyInitialized(protocol) == protocol # 0

\* oneshot::Sender::send and mpsc::Sender::send: Err once the receiver is gone
SendResult(rx) == IF rx = "alive" THEN "ok" ELSE "err"

\* mutant of AfterSend: the sweep is given up at the first failed send
AfterSend_StopOnErr(result) == result = "ok"

\* lines 218-220 and the like: an Err is logged, the next block follows
AfterSend(result) == TRUE

RECURSIVE ShutdownSweep(_, _, _, _)
\* lines 216-271: for each worker in turn, lock, take the sender out of the
\* Option and send with it if there was one
ShutdownSweep(order, tx, rx, sent) ==
    IF order = <<>> THEN [tx |-> tx, sent |-> sent, completed |-> TRUE]
    ELSE LET w == Head(order) IN
         IF tx[w] = "some"
         THEN LET result == SendResult(rx[w])
                  taken == [tx EXCEPT ![w] = "taken"]
                  sent_w == Append(sent, <<w, result>>)
              IN  IF AfterSend(result)
                  THEN ShutdownSweep(Tail(order), taken, rx, sent_w)
                  ELSE [tx |-> taken, sent |-> sent_w, completed |-> FALSE]
         ELSE ShutdownSweep(Tail(order), tx, rx, sent)

\* Protocol::init, lines 106-213
ProtocolInit ==
    /\ proto_calls < MaxProtocolCalls
    /\ proto_calls' = proto_calls + 1
    /\ IF AlreadyInitialized(PROTOCOL)
       THEN /\ proto_last' = ProtocolCall("init", "already", <<>>)
            /\ UNCHANGED <<PROTOCOL, worker_shutdown, worker_rx, spawned, channels>>
       ELSE /\ proto_last' = ProtocolCall("init", "initialized", <<>>)
            /\ PROTOCOL' = PROTOCOL + 1
            /\ channels' = channels + ChannelsPerInit
            /\ worker_shutdown' = [w \in CoreWorkers |-> "some"]
            /\ worker_rx' = [w \in Workers |-> "alive"]
            /\ spawned' = [w \in Workers |-> spawned[w] + 1]
    /\ UNCHANGED <<hsVars, tangleVars, milestone_requester, kickVars, solidifierVars,
                   msTangleVars, hasherVars, requestVars, tangleStartVars, signals,
                   sendersVars, messageVars, finalVars>>

\* Protocol::shutdown, lines 215-275; Protocol::get panics while the static
\* is null
ProtocolShutdown ==
    /\ proto_calls < MaxProtocolCalls
    /\ proto_calls' = proto_calls + 1
    /\ IF PROTOCOL = 0
       THEN /\ proto_last' = ProtocolCall("shutdown", "panic", <<>>)
            /\ UNCHANGED <<worker_shutdown, signals>>
       ELSE LET sweep == ShutdownSweep(ShutdownOrder, worker_shutdown, worker_rx, <<>>)
                sent == IF sweep.completed
                        THEN Append(sweep.sent, <<"status", SendResult(worker_rx["status"])>>)
                        ELSE sweep.sent
            IN  /\ worker_shutdown' = sweep.tx
                /\ signals' = signals \o sent
                /\ proto_last' = ProtocolCall("shutdown", "done", sent)
    /\ UNCHANGED <<hsVars, tangleVars, milestone_requester, kickVars, solidifierVars,
                   msTangleVars, hasherVars, requestVars, tangleStartVars, sendersVars,
                   messageVars, finalVars,
                   PROTOCOL, worker_rx, spawned, channels>>

\* Protocol::get, lines 277-283
ProtocolGet ==
    /\ proto_calls < MaxProtocolCalls
    /\ proto_calls' = proto_calls + 1
    /\ proto_last' = ProtocolCall("get", IF PROTOCOL = 0 THEN "panic" ELSE "value", <<>>)
    /\ UNCHANGED <<hsVars, tangleVars, milestone_requester, kickVars, solidifierVars,
                   msTangleVars, hasherVars, requestVars, tangleStartVars, sendersVars,
                   messageVars, finalVars,
                   PROTOCOL, worker_shutdown, worker_rx, spawned, channels, signals>>

\* a spawned worker ends, signalled or not, and drops its shutdown receiver
WorkerExit(w) ==
    /\ worker_rx[w] = "alive"
    /\ worker_rx' = [worker_rx EXCEPT ![w] = "gone"]
    /\ UNCHANGED <<hsVars, tangleVars, milestone_requester, kickVars, solidifierVars,
                   msTangleVars, hasherVars, requestVars, tangleStartVars, sendersVars,
                   messageVars, finalVars,
                   PROTOCOL, worker_shutdown, spawned, channels, signals, proto_last,
                   proto_calls>>

NextProtocol ==
    \/ ProtocolInit
    \/ ProtocolShutdown
    \/ ProtocolGet
    \/ \E w \in Workers : WorkerExit(w)

(***************************************************************************)
(* The per-peer senders (protocol/protocol.rs): senders_add and            *)
(* senders_remove.                                                         *)
(***************************************************************************)
\* the SenderWorkers of lines 299-333, in order; the fields of SenderContext
SenderKinds ==
    <<"milestone_request", "transaction_broadcast", "transaction_request", "heartbeat">>

SendersCall(call, epid, context, sent) ==
    [call |-> call, epid |-> epid, context |-> context, sent |-> sent]

\* lines 300-333: for each kind an mpsc channel of the configured bound, a
\* one-shot shutdown channel and a SenderWorker holding the two receivers
NewSenders(epid) ==
    [epid |-> epid,
     rx |-> [k \in Range(SenderKinds) |-> "alive"],
     shutdown |-> [k \in Range(SenderKinds) |-> "some"]]

\* mutant of RemoveContext: the context stays in the map
RemoveContext_Keep(ctxs, epid) == ctxs

\* line 346: contexts.remove(epid)
RemoveContext(ctxs, epid) == [ctxs EXCEPT ![epid] = 0]

\* lines 347-358: the four sends, each Err only logged
SendersSweep(workers) ==
    [i \in DOMAIN SenderKinds |-> <<SenderKinds[i], SendResult(workers.rx[SenderKinds[i]])>>]

\* a context that leaves the map is dropped, and its one-shot senders with it
DropContext(workers, context, how) ==
    IF context = 0 THEN workers
    ELSE [workers EXCEPT ![context].shutdown = [k \in Range(SenderKinds) |-> how]]

\* Protocol::senders_add, lines 296-343; the insert of line 342 replaces a
\* context already registered under the endpoint id
SendersAdd(epid) ==
    /\ senders_calls < MaxSendersCalls
    /\ senders_calls' = senders_calls + 1
    /\ LET context == Len(sender_workers) + 1 IN
        /\ sender_workers' =
              Append(DropContext(sender_workers, contexts[epid], "dropped"), NewSenders(epid))
        /\ contexts' = [contexts EXCEPT ![epid] = context]
        /\ senders_last' = SendersCall("add", epid, context, <<>>)
    /\ UNCHANGED <<hsVars, tangleVars, milestone_requester, kickVars, solidifierVars,
                   msTangleVars, hasherVars, requestVars, tangleStartVars, protocolVars,
                   messageVars, finalVars,
                   sender_exits>>

\* Protocol::senders_remove, lines 345-360
SendersRemove(epid) ==
    /\ senders_calls < MaxSendersCalls
    /\ senders_calls' = senders_calls + 1
    /\ IF contexts[epid] # 0
       THEN /\ contexts' = RemoveContext(contexts, epid)
            /\ sender_workers' = DropContext(sender_workers, contexts[epid], "sent")
            /\ senders_last' = SendersCall("remove", epid, contexts[epid],
                                           SendersSweep(sender_workers[contexts[epid]]))
       ELSE /\ senders_last' = SendersCall("remove", epid, 0, <<>>)
            /\ UNCHANGED <<contexts, sender_workers>>
    /\ UNCHANGED <<hsVars, tangleVars, milestone_requester, kickVars, solidifierVars,
                   msTangleVars, hasherVars, requestVars, tangleStartVars, protocolVars,
                   messageVars, finalVars,
                   sender_exits>>

\* a SenderWorker ends on its own and drops its receivers
SenderExit(context, kind) ==
    /\ sender_exits < MaxSenderExits
    /\ sender_workers[context].rx[kind] = "alive"
    /\ sender_workers' = [sender_workers EXCEPT ![context].rx[kind] = "gone"]
    /\ sender_exits' = sender_exits + 1
    /\ UNCHANGED <<hsVars, tangleVars, milestone_requester, kickVars, solidifierVars,
                   msTangleVars, hasherVars, requestVars, tangleStartVars, protocolVars,
                   messageVars, finalVars,
                   contexts, senders_last, senders_calls>>

NextSenders ==
    \/ \E epid \in Conns : SendersAdd(epid)
    \/ \E epid \in Conns : SendersRemove(epid)
    \/ \E context \in DOMAIN sender_workers, kind \in Range(SenderKinds) :
          SenderExit(context, kind)

(***************************************************************************)
(* The fixed-size messages of protocol version 2 (message/v2): Heartbeat   *)
(* and MilestoneRequest.  A u32 is the pair <<high half, low half>> of its *)
(* two 16-bit halves; a u8 is a number in 0..255; a buffer is a sequence   *)
(* of u8.                                                                  *)
(***************************************************************************)
\* heartbeat.rs, lines 20-29
LATEST_SOLID_MILESTONE_INDEX_SIZE == 4
PRUNED_INDEX_SIZE == 4
LATEST_MILESTONE_INDEX_SIZE == 4
CONNECTED_PEERS_SIZE == 1
SYNCED_PEERS_SIZE == 1
HeartbeatConstantSize ==
    LATEST_SOLID_MILESTONE_INDEX_SIZE + PRUNED_INDEX_SIZE + LATEST_MILESTONE_INDEX_SIZE
       + CONNECTED_PEERS_SIZE + SYNCED_PEERS_SIZE

\* milestone_request.rs, lines 7-8
INDEX_SIZE == 4
MilestoneRequestConstantSize == INDEX_SIZE

\* the u32 and u8 values the messages are built from
U32Samples == {<<0, 0>>, <<0, 1>>, <<280, 8091>>, <<33271, 57212>>, <<65535, 65535>>}
U8Samples == {0, 12, 255}

\* mutant of u32_to_be_bytes: the least significant byte first
u32_to_le_bytes(v) == <<v[2] % 256, v[2] \div 256, v[1] % 256, v[1] \div 256>>

\* u32::to_be_bytes and u32::from_be_bytes
u32_to_be_bytes(v) == <<v[1] \div 256, v[1] % 256, v[2] \div 256, v[2] % 256>>
u32_from_be_bytes(b) == <<b[1] * 256 + b[2], b[3] * 256 + b[4]>>

\* u8::to_be_bytes and u8::from_be_bytes
u8_to_be_bytes(v) == <<v>>
u8_from_be_bytes(b) == b[1]

\* slice::split_at
split_at(b, mid) == <<SubSeq(b, 1, mid), SubSeq(b, mid + 1, Len(b))>>

\* vec![0u8; n]
ZeroVec(n) == [i \in 1..n |-> 0]

\* Message::size_range, a Range<usize> as the set of its members
RangeUsize(start, end) == {n \in 0..end : start <= n /\ n < end}

Heartbeat(latest_solid_milestone_index, pruned_index, latest_milestone_index, connected_peers, synced_peers) ==
    [kind |-> "Heartbeat",
     latest_solid_milestone_index |-> latest_solid_milestone_index,
     pruned_index |-> pruned_index,
     latest_milestone_index |-> latest_milestone_index,
     connected_peers |-> connected_peers,
     synced_peers |-> synced_peers]

MilestoneRequest(index) == [kind |-> "MilestoneRequest", index |-> index]

\* Heartbeat::size_range, size, into_bytes and from_bytes, lines 72-112
HeartbeatSizeRange == RangeUsize(HeartbeatConstantSize, HeartbeatConstantSize + 1)
HeartbeatSize(m) == HeartbeatConstantSize

HeartbeatIntoBytes(m, buf) ==
    LET s1 == split_at(buf, LATEST_SOLID_MILESTONE_INDEX_SIZE)
        s2 == split_at(s1[2], PRUNED_INDEX_SIZE)
        s3 == split_at(s2[2], LATEST_MILESTONE_INDEX_SIZE)
        s4 == split_at(s3[2], CONNECTED_PEERS_SIZE)
        s5 == split_at(s4[2], SYNCED_PEERS_SIZE)
    IN  u32_to_be_bytes(m.latest_solid_milestone_index)
           \o u32_to_be_bytes(m.pruned_index)
           \o u32_to_be_bytes(m.latest_milestone_index)
           \o u8_to_be_bytes(m.connected_peers)
           \o u8_to_be_bytes(m.synced_peers)
           \o s5[2]

HeartbeatFromBytes(b) ==
    LET s1 == split_at(b, LATEST_SOLID_MILESTONE_INDEX_SIZE)
        s2 == split_at(s1[2], PRUNED_INDEX_SIZE)
        s3 == split_at(s2[2], LATEST_MILESTONE_INDEX_SIZE)
        s4 == split_at(s3[2], CONNECTED_PEERS_SIZE)
        s5 == split_at(s4[2], SYNCED_PEERS_SIZE)
    IN  Heartbeat(u32_from_be_bytes(s1[1]), u32_from_be_bytes(s2[1]),
                  u32_from_be_bytes(s3[1]), u8_from_be_bytes(s4[1]),
                  u8_from_be_bytes(s5[1]))

\* MilestoneRequest::size_range, size, into_bytes and from_bytes, lines 26-44
MilestoneRequestSizeRange ==
    RangeUsize(MilestoneRequestConstantSize, MilestoneRequestConstantSize + 1)
MilestoneRequestSize(m) == MilestoneRequestConstantSize
MilestoneRequestIntoBytes(m, buf) == u32_to_be_bytes(m.index)
MilestoneRequestFromBytes(b) == MilestoneRequest(u32_from_be_bytes(SubSeq(b, 1, INDEX_SIZE)))

\* the Message trait, by the kind of the message
size(m) == IF m.kind = "Heartbeat" THEN HeartbeatSize(m) ELSE MilestoneRequestSize(m)
size_range(kind) ==
    IF kind = "Heartbeat" THEN HeartbeatSizeRange ELSE MilestoneRequestSizeRange
into_bytes(m, buf) ==
    IF m.kind = "Heartbeat" THEN HeartbeatIntoBytes(m, buf)
    ELSE MilestoneRequestIntoBytes(m, buf)
from_bytes(kind, b) ==
    IF kind = "Heartbeat" THEN HeartbeatFromBytes(b) ELSE MilestoneRequestFromBytes(b)

\* let mut bytes = vec![0u8; message.size()]; message.into_bytes(&mut bytes)
MessageIntoBytes ==
    /\ message_pc = "new"
    /\ wire' = into_bytes(message_from, ZeroVec(size(message_from)))
    /\ message_pc' = "written"
    /\ UNCHANGED <<hsVars, tangleVars, milestone_requester, kickVars, solidifierVars,
                   msTangleVars, hasherVars, requestVars, tangleStartVars, protocolVars,
                   sendersVars, finalVars, message_from, message_to>>

\* M::from_bytes(&bytes)
MessageFromBytes ==
    /\ message_pc = "written"
    /\ message_to' = from_bytes(message_from.kind, wire)
    /\ message_pc' = "read"
    /\ UNCHANGED <<hsVars, tangleVars, milestone_requester, kickVars, solidifierVars,
                   msTangleVars, hasherVars, requestVars, tangleStartVars, protocolVars,
                   sendersVars, finalVars, message_from, wire>>

NextMessage ==
    \/ MessageIntoBytes
    \/ MessageFromBytes

(***************************************************************************)
(* The outgoing bundle builder (bee-bundle, outgoing_bundle_builder.rs).   *)
(* A bundle is staged raw -> sealed -> signed -> attached -> built; every  *)
(* stage method consumes the builder, so an Err leaves no builder behind.  *)
(* An optional field is <<>> (None) or <<x>> (Some(x)).  i64 is scaled to  *)
(* I64Bits bits and the supply to IOTA_SUPPLY, keeping 2 * IOTA_SUPPLY     *)
(* below the largest i64, as it is for the real constants.                 *)
(***************************************************************************)
None == <<>>
Some(x) == <<x>>
IsNone(o) == o = <<>>
Unwrap(o) == o[1]

I64Min == -(2 ^ (I64Bits - 1))
I64Max == 2 ^ (I64Bits - 1) - 1
\* two's complement wrap-around of a sum that left the i64 range
WrapI64(x) == ((x - I64Min) % (2 ^ I64Bits)) + I64Min
I64Abs_Identity(x) == x
\* i64::abs without overflow checks: the minimum is its own absolute value
I64Abs(x) == IF x = I64Min THEN I64Min ELSE IF x < 0 THEN -x ELSE x

\* the value of a transaction is bounded by the network supply
ValueSamples == (-IOTA_SUPPLY)..IOTA_SUPPLY
\* obsolete tags of TagTrits balanced trits, least significant trit first
OnesTag == [i \in 1..TagTrits |-> 1]
TagSamples == {[i \in 1..TagTrits |-> IF i = 1 THEN 0 ELSE 1], OnesTag}
\* which obsolete tags of transaction 0 give a normalized hash with the M-bug
MBugOracles == {{}, {OnesTag}, TagSamples}
\* WotsSecurityLevel Low, Medium, High: the fragments of one signature
SecurityLevels == {1, 2, 3}
PlainPayload == <<"payload", 0, 0>>
Fragment(input, chunk) == <<"fragment", input, chunk>>

\* a TransactionBuilder with the fields the bundle builder reads and writes
TransactionBuilder(payload, address, value, tag, obsolete_tag) ==
    [payload |-> payload, address |-> address, value |-> value, tag |-> tag,
     obsolete_tag |-> obsolete_tag, index |-> None, last_index |-> None, bundle |-> None]

\* the builders a caller pushes: complete ones, and ones lacking one field
PushedBuilders ==
    {TransactionBuilder(Some(PlainPayload), Some("address"), Some(v), Some("tag"), Some(t)) :
         v \in ValueSamples, t \in TagSamples}
    \cup {TransactionBuilder(None, Some("address"), Some(0), Some("tag"), Some(OnesTag)),
          TransactionBuilder(Some(PlainPayload), None, Some(0), Some("tag"), Some(OnesTag)),
          TransactionBuilder(Some(PlainPayload), Some("address"), None, Some("tag"), Some(OnesTag)),
          TransactionBuilder(Some(PlainPayload), Some("address"), Some(0), None, Some(OnesTag)),
          TransactionBuilder(Some(PlainPayload), Some("address"), Some(0), Some("tag"), None)}

\* what a call on the bundle builder returned
BundleCall(op, result, field, sum, wrapped, fragments, before) ==
    [op |-> op, result |-> result, field |-> field, sum |-> sum, wrapped |-> wrapped,
     fragments |-> fragments, before |-> before]
NoBundleCall == BundleCall("none", "Ok", "", 0, FALSE, <<>>, <<>>)

\* TransactionBuilder::essence: the fields the bundle hash covers
essence(tb) == <<tb.address, tb.value, tb.obsolete_tag, tb.index, tb.last_index>>
\* the sponge, reset, after absorbing every essence in order, squeezed
SpongeHash(tbs) == <<"kerl", [k \in 1..Len(tbs) |-> essence(tbs[k])]>>
normalize_hash(digest) == <<"normalized", digest>>
\* "for trits in hash.chunks(3)": some group of three trits is all PlusOne
has_m_bug(tbs, oracle) == (~IsNone(tbs[1].obsolete_tag)) /\ Unwrap(tbs[1].obsolete_tag) \in oracle

\* "obsolete_tag + 1": NegOne -> Zero, Zero -> PlusOne stop; PlusOne -> NegOne carries
RECURSIVE IncrementTag(_, _)
IncrementTag(t, i) ==
    IF i > Len(t) THEN t
    ELSE IF t[i] = 1 THEN IncrementTag([t EXCEPT ![i] = -1], i + 1)
    ELSE [t EXCEPT ![i] = t[i] + 1]

\* the loop of calculate_bundle_hash: hash, and on the M-bug increment the
\* obsolete tag and store it in builder 0 only
RECURSIVE HashLoop(_, _, _)
HashLoop(tbs, obsolete_tag, oracle) ==
    IF ~has_m_bug(tbs, oracle)
    THEN [hash |-> normalize_hash(SpongeHash(tbs)), obsolete_tag |-> obsolete_tag, builders |-> tbs]
    ELSE HashLoop([tbs EXCEPT ![1].obsolete_tag = Some(IncrementTag(obsolete_tag, 1))],
                  IncrementTag(obsolete_tag, 1), oracle)

\* after the loop every builder gets the final obsolete tag and the hash
StoreHash(found) ==
    [k \in 1..Len(found.builders) |->
        [found.builders[k] EXCEPT !.obsolete_tag = Some(found.obsolete_tag),
                                  !.bundle = Some(found.hash)]]

calculate_bundle_hash(tbs, oracle) ==
    IF tbs = <<>> THEN [result |-> "Empty", field |-> "", builders |-> tbs]
    ELSE IF IsNone(tbs[1].obsolete_tag)
    THEN [result |-> "MissingTransactionBuilderField", field |-> "obsolete_tag", builders |-> tbs]
    ELSE [result |-> "Ok", field |-> "",
          builders |-> StoreHash(HashLoop(tbs, Unwrap(tbs[1].obsolete_tag), oracle))]

SealResult(result, field, sum, tbs) ==
    [result |-> result, field |-> field, sum |-> sum, builders |-> tbs]

\* the body of seal from the emptiness check on; "sum += value" panics on
\* overflow when the build checks it and wraps when it does not
RECURSIVE SealLoop(_, _, _, _, _, _)
SealLoop(tbs, k, sum, last_index, overflow_checks, oracle) ==
    IF k > Len(tbs)
    THEN IF sum # 0 THEN SealResult("InvalidValue", "", sum, tbs)
         ELSE LET hashed == calculate_bundle_hash(tbs, oracle)
              IN  SealResult(hashed.result, hashed.field, 0, hashed.builders)
    ELSE IF IsNone(tbs[k].payload) THEN SealResult("MissingTransactionBuilderField", "payload", 0, tbs)
    ELSE IF IsNone(tbs[k].address) THEN SealResult("MissingTransactionBuilderField", "address", 0, tbs)
    ELSE IF IsNone(tbs[k].value) THEN SealResult("MissingTransactionBuilderField", "value", 0, tbs)
    ELSE IF IsNone(tbs[k].tag) THEN SealResult("MissingTransactionBuilderField", "tag", 0, tbs)
    ELSE LET exact == sum + Unwrap(tbs[k].value)
             indexed == [tbs EXCEPT ![k].index = Some(k - 1), ![k].last_index = Some(last_index)]
         IN  IF overflow_checks /\ (exact > I64Max \/ exact < I64Min \/ exact = I64Min)
             THEN SealResult("panic", "", 0, tbs)
             ELSE IF I64Abs(WrapI64(exact)) > IOTA_SUPPLY
             THEN SealResult("InvalidValue", "", WrapI64(exact), indexed)
             ELSE SealLoop(indexed, k + 1, WrapI64(exact), last_index, overflow_checks, oracle)

\* the index of the last builder: usize "len() - 1", taken before the
\* emptiness check; the wrapped value stands for usize::MAX
last_index_of(tbs) == Len(tbs) - 1

has_no_input_Always(tbs) == TRUE
\* has_no_input: no transaction spends (value < 0)
has_no_input(tbs) == \A k \in 1..Len(tbs) : ~(Unwrap(tbs[k].value) < 0)

\* "Find the first input tx": the loop keeps the index of every input it
\* meets, so it ends holding the last one; 0 when there is none
RECURSIVE FindInput(_, _, _)
FindInput(tbs, k, input_index) ==
    IF k > Len(tbs) THEN input_index
    ELSE FindInput(tbs, k + 1,
                   IF Unwrap(tbs[k].value) < 0 THEN Unwrap(tbs[k].index) ELSE input_index)

\* every fragment is stored, in order, in the payload of builder input_index
RECURSIVE WriteFragments(_, _, _)
WriteFragments(tbs, fragments, input_index) ==
    IF fragments = <<>> THEN tbs
    ELSE WriteFragments([tbs EXCEPT ![input_index + 1].payload = Some(Head(fragments))],
                        Tail(fragments), input_index)

\* the fragments of the signatures of the inputs: `security` fragments each
SignatureFragments(inputs, security) ==
    [f \in 1..(inputs * security) |->
        Fragment(((f - 1) \div security) + 1, ((f - 1) % security) + 1)]

\* StagedOutgoingBundleBuilder::new followed by push
BundlePush ==
    /\ bundle_stage = "raw"
    /\ Len(bundle_builders) < MaxBundle
    /\ \E tb \in PushedBuilders :
          /\ bundle_builders' = Append(bundle_builders, tb)
          /\ bundle_pushed' = Append(bundle_pushed, tb)
          /\ bundle_last' = BundleCall("push", "Ok", "", 0, FALSE, <<>>, bundle_builders)
    /\ UNCHANGED <<bundle_stage, m_bug_tags>>
    /\ UNCHANGED preBundleVars

\* seal on an empty builder: "len() - 1" underflows before the check
BundleSealEmpty ==
    /\ bundle_stage = "raw"
    /\ bundle_builders = <<>>
    /\ \E overflow_checks \in BOOLEAN :
          IF overflow_checks /\ last_index_of(bundle_builders) < 0
          THEN /\ bundle_stage' = "panicked"
               /\ bundle_last' = BundleCall("seal", "panic", "", 0, FALSE, <<>>, bundle_builders)
          ELSE /\ bundle_stage' = "gone"
               /\ bundle_last' = BundleCall("seal", "Empty", "", 0,
                                            last_index_of(bundle_builders) < 0, <<>>,
                                            bundle_builders)
    /\ UNCHANGED <<bundle_builders, bundle_pushed, m_bug_tags>>
    /\ UNCHANGED preBundleVars

\* seal on a builder holding transactions
BundleSeal ==
    /\ bundle_stage = "raw"
    /\ bundle_builders # <<>>
    /\ \E overflow_checks \in BOOLEAN :
          LET sealed == SealLoop(bundle_builders, 1, 0, last_index_of(bundle_builders),
                                 overflow_checks, m_bug_tags)
          IN  /\ bundle_stage' = IF sealed.result = "Ok" THEN "sealed"
                                 ELSE IF sealed.result = "panic" THEN "panicked" ELSE "gone"
              /\ bundle_builders' = IF sealed.result = "Ok" THEN sealed.builders ELSE <<>>
              /\ bundle_last' = BundleCall("seal", sealed.result, sealed.field, sealed.sum,
                                           FALSE, <<>>, bundle_builders)
    /\ UNCHANGED <<bundle_pushed, m_bug_tags>>
    /\ UNCHANGED preBundleVars

\* sign: the signing of an input can fail; else the fragments are written
BundleSign ==
    /\ bundle_stage = "sealed"
    /\ \E inputs \in 0..MaxInputs, security \in SecurityLevels, failed \in BOOLEAN :
          IF failed
          THEN /\ inputs > 0
               /\ bundle_stage' = "gone"
               /\ bundle_builders' = <<>>
               /\ bundle_last' = BundleCall("sign", "FailedSigningOperation", "", 0, FALSE,
                                            <<>>, bundle_builders)
          ELSE /\ bundle_stage' = "signed"
               /\ bundle_builders' =
                      WriteFragments(bundle_builders, SignatureFragments(inputs, security),
                                     FindInput(bundle_builders, 1, 0))
               /\ bundle_last' = BundleCall("sign", "Ok", "", 0, FALSE,
                                            SignatureFragments(inputs, security),
                                            bundle_builders)
    /\ UNCHANGED <<bundle_pushed, m_bug_tags>>
    /\ UNCHANGED preBundleVars

\* attach_local / attach_remote of a sealed bundle: only without inputs
BundleAttachSealed ==
    /\ bundle_stage = "sealed"
    /\ IF has_no_input(bundle_builders)
       THEN /\ bundle_stage' = "attached"
            /\ bundle_builders' = bundle_builders
            /\ bundle_last' = BundleCall("attach", "Ok", "sealed", 0, FALSE, <<>>,
                                         bundle_builders)
       ELSE /\ bundle_stage' = "gone"
            /\ bundle_builders' = <<>>
            /\ bundle_last' = BundleCall("attach", "UnsignedInput", "sealed", 0, FALSE, <<>>,
                                         bundle_builders)
    /\ UNCHANGED <<bundle_pushed, m_bug_tags>>
    /\ UNCHANGED preBundleVars

\* attach_local / attach_remote of a signed bundle: hands the builders on
BundleAttachSigned ==
    /\ bundle_stage = "signed"
    /\ bundle_stage' = "attached"
    /\ bundle_last' = BundleCall("attach", "Ok", "signed", 0, FALSE, <<>>, bundle_builders)
    /\ UNCHANGED <<bundle_builders, bundle_pushed, m_bug_tags>>
    /\ UNCHANGED preBundleVars

\* build: one transaction per builder, unless a builder fails to build
BundleBuild ==
    /\ bundle_stage = "attached"
    /\ \E built \in BOOLEAN :
          IF built
          THEN /\ bundle_stage' = "built"
               /\ bundle_builders' = bundle_builders
               /\ bundle_last' = BundleCall("build", "Ok", "", 0, FALSE, <<>>, bundle_builders)
          ELSE /\ bundle_stage' = "gone"
               /\ bundle_builders' = <<>>
               /\ bundle_last' = BundleCall("build", "TransactionError", "", 0, FALSE, <<>>,
                                            bundle_builders)
    /\ UNCHANGED <<bundle_pushed, m_bug_tags>>
    /\ UNCHANGED preBundleVars

NextBundle ==
    \/ BundlePush
    \/ BundleSealEmpty
    \/ BundleSeal
    \/ BundleSign
    \/ BundleAttachSealed
    \/ BundleAttachSigned
    \/ BundleBuild

(***************************************************************************)
(* The event bus (bee-event, lib.rs).  Bus.listeners is a DashMap from the *)
(* interned event name to the Vec of listeners.  DashMap::get_mut and      *)
(* DashMap::entry write-lock the shard of the key and return a guard; the  *)
(* lock is not re-entrant, so a thread asking for a shard it holds waits   *)
(* for ever.  A listener is plain, or itself calls dispatch or             *)
(* add_listener on the same bus.                                           *)
(***************************************************************************)
EventNames == {"foo", "bar"}
ListenerBodies == {"plain", "dispatch", "add_listener"}
Listener(id, body, on) == [id |-> id, body |-> body, on |-> on]
\* the listeners a caller may register: the next free id, any body
NewListeners ==
    {Listener(Len(bus_listeners["foo"]) + Len(bus_listeners["bar"]) + 1, body, on) :
         body \in ListenerBodies, on \in EventNames}
Registered == Len(bus_listeners["foo"]) + Len(bus_listeners["bar"])
NoDispatch == [event |-> "none", ran |-> <<>>, registered |-> <<>>]
\* the shard of the map an event name hashes to
Shard(event) == IF same_shard THEN "shard" ELSE event
Frame(event, pos, ran) == [event |-> event, pos |-> pos, ran |-> ran]
Ids(ls) == [k \in 1..Len(ls) |-> ls[k].id]

get_mut_AnyKey(event) == bus_listeners["foo"] \o bus_listeners["bar"]
\* listeners.get_mut(&E::get_interned()): the Vec under the name, if any
get_mut(event) == bus_listeners[event]

\* the stack after the listener the innermost dispatch was running returned
ListenerReturned(stack) ==
    [stack EXCEPT ![Len(stack)] =
        Frame(stack[Len(stack)].event, stack[Len(stack)].pos + 1,
              Append(stack[Len(stack)].ran, get_mut(stack[Len(stack)].event)[stack[Len(stack)].pos].id))]

\* a call of dispatch::<E>, by the application (empty stack) or by the
\* listener running: waits for ever on a shard this thread holds, does
\* nothing without an entry, else keeps the guard and starts on the Vec
Dispatch(event, stack) ==
    IF Shard(event) \in bus_locks
    THEN /\ bus_blocked' = <<stack[Len(stack)].event, event>>
         /\ UNCHANGED <<bus_listeners, bus_locks, bus_stack, bus_last>>
    ELSE IF get_mut(event) = <<>>
    THEN /\ bus_stack' = IF stack = <<>> THEN stack ELSE ListenerReturned(stack)
         /\ bus_last' = IF stack = <<>> THEN [event |-> event, ran |-> <<>>, registered |-> <<>>]
                        ELSE bus_last
         /\ UNCHANGED <<bus_listeners, bus_locks, bus_blocked>>
    ELSE /\ bus_locks' = bus_locks \cup {Shard(event)}
         /\ bus_stack' = Append(stack, Frame(event, 1, <<>>))
         /\ UNCHANGED <<bus_listeners, bus_last, bus_blocked>>

\* a call of add_listener::<E>: entry(..).or_default().push(..) under the
\* shard's lock, released when the statement ends
AddListener(event, l, stack) ==
    IF Shard(event) \in bus_locks
    THEN /\ bus_blocked' = <<stack[Len(stack)].event, event>>
         /\ UNCHANGED <<bus_listeners, bus_locks, bus_stack, bus_last>>
    ELSE /\ bus_listeners' = [bus_listeners EXCEPT ![event] = Append(@, l)]
         /\ bus_stack' = IF stack = <<>> THEN stack ELSE ListenerReturned(stack)
         /\ UNCHANGED <<bus_locks, bus_last, bus_blocked>>

\* the application registers a listener
BusAddListener ==
    /\ bus_stack = <<>>
    /\ Registered < MaxListeners
    /\ \E event \in EventNames, l \in NewListeners : AddListener(event, l, bus_stack)
    /\ UNCHANGED same_shard
    /\ UNCHANGED preBusVars

\* the application dispatches an event
BusDispatch ==
    /\ bus_stack = <<>>
    /\ \E event \in EventNames : Dispatch(event, bus_stack)
    /\ UNCHANGED same_shard
    /\ UNCHANGED preBusVars

\* the listener the innermost dispatch has reached
Running == get_mut(bus_stack[Len(bus_stack)].event)[bus_stack[Len(bus_stack)].pos]
Iterating ==
    /\ bus_stack # <<>>
    /\ bus_blocked = <<>>
    /\ bus_stack[Len(bus_stack)].pos <= Len(get_mut(bus_stack[Len(bus_stack)].event))

\* for_each calls the next listener, which returns without touching the bus
BusListenerPlain ==
    /\ Iterating
    /\ Running.body = "plain"
    /\ bus_stack' = ListenerReturned(bus_stack)
    /\ UNCHANGED <<bus_listeners, bus_locks, bus_last, bus_blocked, same_shard>>
    /\ UNCHANGED preBusVars

\* for_each calls the next listener, which dispatches an event itself
BusListenerDispatch ==
    /\ Iterating
    /\ Running.body = "dispatch"
    /\ Dispatch(Running.on, bus_stack)
    /\ UNCHANGED same_shard
    /\ UNCHANGED preBusVars

\* for_each calls the next listener, which registers a plain listener
BusListenerAdd ==
    /\ Iterating
    /\ Running.body = "add_listener"
    /\ Registered < MaxListeners
    /\ AddListener(Running.on, Listener(Registered + 1, "plain", Running.on), bus_stack)
    /\ UNCHANGED same_shard
    /\ UNCHANGED preBusVars

\* for_each is through: the guard is dropped and dispatch returns, to the
\* listener that called it, which returns too, or to the application
BusDispatchReturn ==
    /\ bus_stack # <<>>
    /\ bus_blocked = <<>>
    /\ bus_stack[Len(bus_stack)].pos > Len(get_mut(bus_stack[Len(bus_stack)].event))
    /\ bus_locks' = bus_locks \ {Shard(bus_stack[Len(bus_stack)].event)}
    /\ bus_last' = [event |-> bus_stack[Len(bus_stack)].event,
                    ran |-> bus_stack[Len(bus_stack)].ran,
                    registered |-> Ids(bus_listeners[bus_stack[Len(bus_stack)].event])]
    /\ bus_stack' = IF Len(bus_stack) = 1 THEN <<>>
                    ELSE ListenerReturned(SubSeq(bus_stack, 1, Len(bus_stack) - 1))
    /\ UNCHANGED <<bus_listeners, bus_blocked, same_shard>>
    /\ UNCHANGED preBusVars

NextBus ==
    \/ BusAddListener
    \/ BusDispatch
    \/ BusListenerPlain
    \/ BusListenerDispatch
    \/ BusListenerAdd
    \/ BusDispatchReturn

(***************************************************************************)
(* Initial states.  A connection with no worker is "idle"; a peer that was *)
(* handshaked before the run starts has a stopped worker with status Done. *)
(***************************************************************************)
NoMsg == [msg |-> OtherMsg, result |-> "None"]

PeerOf(c, origin, address) == [epid |-> c, address |-> address, origin |-> origin]

NoRequest == [kind |-> "none", key |-> 0, entry |-> <<>>, before |-> <<>>]

\* no request made through Protocol::request_milestone / request_transaction
InitRequestIdle ==
    /\ req_last = NoRequest
    /\ req_count = 0

\* the TangleWorker started some time ago from a snapshot at MsBase
InitTangleStarted ==
    /\ tangle_started = TRUE
    /\ snapshot_index = MsBase

\* before Protocol::init: the static is null, nothing is spawned
NoProtocolCall == [call |-> "none", outcome |-> "none", sent |-> <<>>]

InitProtocolNull ==
    /\ PROTOCOL = 0
    /\ worker_shutdown = [w \in CoreWorkers |-> "none"]
    /\ worker_rx = [w \in Workers |-> "none"]
    /\ spawned = [w \in Workers |-> 0]
    /\ channels = 0
    /\ signals = <<>>
    /\ proto_last = NoProtocolCall
    /\ proto_calls = 0

\* Protocol { contexts: DashMap::new() }, line 171
NoSendersCall == [call |-> "none", epid |-> NoEpid, context |-> 0, sent |-> <<>>]

InitSendersNone ==
    /\ contexts = [e \in Conns |-> 0]
    /\ sender_workers = <<>>
    /\ sender_exits = 0
    /\ senders_last = NoSendersCall
    /\ senders_calls = 0

\* no message is being written or read
NoMessage == [kind |-> "none"]

InitMessageNone ==
    /\ message_from = NoMessage
    /\ wire = <<>>
    /\ message_to = NoMessage
    /\ message_pc = "read"

\* no outgoing bundle is being built
InitBundleNone ==
    /\ bundle_builders = <<>>
    /\ bundle_stage = "gone"
    /\ bundle_pushed = <<>>
    /\ bundle_last = NoBundleCall
    /\ m_bug_tags = {}

\* no event bus
InitBusNone ==
    /\ bus_listeners = [e \in EventNames |-> <<>>]
    /\ bus_locks = {}
    /\ bus_stack = <<>>
    /\ bus_last = NoDispatch
    /\ bus_blocked = <<>>
    /\ same_shard = FALSE

InitFinalIdle ==
    /\ InitBundleNone
    /\ InitBusNone

InitLaterIdle ==
    /\ InitRequestIdle
    /\ InitTangleStarted
    /\ InitProtocolNull
    /\ InitSendersNone
    /\ InitMessageNone
    /\ InitFinalIdle

\* the Milestone Solidifier before its first event, over an empty tangle
InitSolidifierIdle ==
    /\ ms_queue = <<>>
    /\ next_ms_index = 1
    /\ sol_handled = 0
    /\ sol_last = NoSolEvent
    /\ attempts = <<>>
    /\ vertices = {}
    /\ solid = {}
    /\ requested_flag = {}
    /\ milestones = {}
    /\ requested_transactions = << >>
    /\ transaction_requester = <<>>

NoHasherStep == HasherStep("none", 0, "none", <<>>)

\* no Hasher running
InitHasherIdle ==
    /\ hasher_worker = <<>>
    /\ hasher_shutdown = FALSE
    /\ hasher_pc = "stopped"
    /\ hasher = <<>>
    /\ events = <<>>
    /\ cache = <<>>
    /\ known_transactions = 0
    /\ processor_worker = <<>>
    /\ hasher_last = NoHasherStep
    /\ hasher_taken = <<>>

InitShared ==
    /\ InitLaterIdle
    /\ InitSolidifierIdle
    /\ InitHasherIdle
    /\ invalid_messages = 0
    /\ resolved = [c \in Conns |-> NoAddr]
    /\ cur = [c \in Conns |-> NoMsg]
    /\ log = [c \in Conns |-> <<>>]
    /\ milestone_requester = <<>>
    /\ kick_shutdown = FALSE
    /\ kick_last = NoPoll
    /\ milestone_solidifier_worker = <<>>
    /\ kick_log = <<>>

\* the watermarks some time after start; the Kickstart worker has exited
InitTangleFixed ==
    /\ kick_pc = "stopped"
    /\ lsmi = MsBase
    /\ lmi = MsBase + 2
    /\ pruning_index = MsBase - 1

PeerConfigs(c, addresses) ==
    [epid : {c}, address : addresses, origin : {"Inbound", "Outbound"}]

\* a peer another connection handshaked before the run starts, or none
EarlierPeers == {<< >>, "e0" :> [ip |-> "10.0.0.1", port |-> 15600]}

\* two connections from one IP whose workers start together
InitHandshake ==
    /\ InitShared
    /\ InitTangleFixed
    /\ handshaked_peers = << >>
    /\ peer \in {f \in [Conns -> UNION {PeerConfigs(c, {[ip |-> "10.0.0.1", port |-> 15600]}) : c \in Conns}] :
                    \A c \in Conns : f[c].epid = c}
    /\ status = [c \in Conns |-> "Awaiting"]
    /\ pc = [c \in Conns |-> "start"]
    /\ receiver \in [Conns -> SeqsUpTo(NarrowMessages, MaxInboxH)]

\* one connection, its peer sending up to MaxInboxS messages
InitSession ==
    /\ InitShared
    /\ InitTangleFixed
    /\ handshaked_peers \in EarlierPeers
    /\ \E p \in PeerConfigs("c1", [ip : {"10.0.0.1"}, port : Ports]) :
         peer = [c \in Conns |-> IF c = "c1" THEN p ELSE PeerOf(c, "Inbound", NoAddr)]
    /\ status = [c \in Conns |-> "Awaiting"]
    /\ pc = [c \in Conns |-> IF c = "c1" THEN "start" ELSE "idle"]
    /\ \E r \in SeqsUpTo(NarrowMessages, MaxInboxS) :
         receiver = [c \in Conns |-> IF c = "c1" THEN r ELSE <<>>]

\* one connection, its peer sending any of the handshakes of WideHandshakes
InitValidate ==
    /\ InitShared
    /\ InitTangleFixed
    /\ handshaked_peers \in EarlierPeers
    /\ \E p \in PeerConfigs("c1", Addresses) :
         peer = [c \in Conns |-> IF c = "c1" THEN p ELSE PeerOf(c, "Inbound", NoAddr)]
    /\ status = [c \in Conns |-> "Awaiting"]
    /\ pc = [c \in Conns |-> IF c = "c1" THEN "start" ELSE "idle"]
    /\ \E r \in SeqsUpTo(WideMessages, MaxInboxV) :
         receiver = [c \in Conns |-> IF c = "c1" THEN r ELSE <<>>]

\* node start: TangleWorker::start has set every watermark to the snapshot
\* index, the Kickstart worker polls, one connection is being handshaked
InitKick ==
    /\ InitShared
    /\ kick_pc = "polling"
    /\ lsmi = MsBase
    /\ lmi = MsBase
    /\ pruning_index = MsBase
    /\ handshaked_peers \in EarlierPeers
    /\ peer = [c \in Conns |-> PeerOf(c, "Inbound", IF c = "c1" THEN [ip |-> "10.0.0.1", port |-> 15601] ELSE NoAddr)]
    /\ status = [c \in Conns |-> "Awaiting"]
    /\ pc = [c \in Conns |-> IF c = "c1" THEN "start" ELSE "idle"]
    /\ \E r \in SeqsUpTo({HandshakeMsg(GoodHandshake(15600)), OtherMsg}, 1) :
         receiver = [c \in Conns |-> IF c = "c1" THEN r ELSE <<>>]

\* no connection, the Kickstart worker has exited
InitNoPeers ==
    /\ invalid_messages = 0
    /\ resolved = [c \in Conns |-> NoAddr]
    /\ cur = [c \in Conns |-> NoMsg]
    /\ log = [c \in Conns |-> <<>>]
    /\ milestone_requester = <<>>
    /\ kick_shutdown = FALSE
    /\ kick_last = NoPoll
    /\ milestone_solidifier_worker = <<>>
    /\ kick_log = <<>>
    /\ InitTangleFixed
    /\ handshaked_peers = << >>
    /\ peer = [c \in Conns |-> PeerOf(c, "Inbound", NoAddr)]
    /\ status = [c \in Conns |-> "Awaiting"]
    /\ pc = [c \in Conns |-> "idle"]
    /\ receiver = [c \in Conns |-> <<>>]

\* MsTangle::new: every watermark is 0; the Kickstart worker is in its first
\* sleep; a peer has handshaked or none has
InitTangle ==
    /\ invalid_messages = 0
    /\ resolved = [c \in Conns |-> NoAddr]
    /\ cur = [c \in Conns |-> NoMsg]
    /\ log = [c \in Conns |-> <<>>]
    /\ milestone_requester = <<>>
    /\ kick_shutdown = FALSE
    /\ kick_last = NoPoll
    /\ milestone_solidifier_worker = <<>>
    /\ kick_log = <<>>
    /\ kick_pc = "polling"
    /\ lsmi = 0
    /\ lmi = 0
    /\ pruning_index = 0
    /\ snapshot_index = 0
    /\ tangle_started = FALSE
    /\ handshaked_peers \in EarlierPeers
    /\ peer = [c \in Conns |-> PeerOf(c, "Inbound", NoAddr)]
    /\ status = [c \in Conns |-> "Awaiting"]
    /\ pc = [c \in Conns |-> "idle"]
    /\ receiver = [c \in Conns |-> <<>>]
    /\ InitRequestIdle
    /\ InitProtocolNull
    /\ InitSendersNone
    /\ InitMessageNone
    /\ InitFinalIdle
    /\ InitSolidifierIdle
    /\ InitHasherIdle

\* process start: Protocol::init has not been called
InitProtocol ==
    /\ InitNoPeers
    /\ InitSolidifierIdle
    /\ InitHasherIdle
    /\ InitLaterIdle

\* after Protocol::init: no peer has senders yet
InitSenders ==
    /\ InitNoPeers
    /\ InitSolidifierIdle
    /\ InitHasherIdle
    /\ InitLaterIdle

\* a Heartbeat or a MilestoneRequest has been built from any of the samples
InitMessage ==
    /\ InitNoPeers
    /\ InitSolidifierIdle
    /\ InitHasherIdle
    /\ InitRequestIdle
    /\ InitTangleStarted
    /\ InitProtocolNull
    /\ InitSendersNone
    /\ InitFinalIdle
    /\ message_from \in
          {Heartbeat(ls, p, l, c, s) : ls \in U32Samples, p \in U32Samples,
                                       l \in U32Samples, c \in U8Samples, s \in U8Samples}
          \cup {MilestoneRequest(i) : i \in U32Samples}
    /\ wire = <<>>
    /\ message_to = NoMessage
    /\ message_pc = "new"

\* both requester queues empty, no request made yet
InitRequest ==
    /\ InitNoPeers
    /\ InitSolidifierIdle
    /\ InitHasherIdle
    /\ InitLaterIdle

\* BatchStream::new, lines 131-142: the assertion on the constants, an empty
\* cache and empty buffers
InitHasher ==
    /\ InitNoPeers
    /\ InitLaterIdle
    /\ InitSolidifierIdle
    /\ hasher_worker = <<>>
    /\ hasher_shutdown = FALSE
    /\ hasher_pc = IF BATCH_SIZE_THRESHOLD <= BATCH_SIZE THEN "poll" ELSE "panicked"
    /\ hasher = <<>>
    /\ events = <<>>
    /\ cache = <<>>
    /\ known_transactions = 0
    /\ processor_worker = <<>>
    /\ hasher_last = NoHasherStep
    /\ hasher_taken = <<>>

\* the Milestone Solidifier after config.await (line 102), over an empty tangle
InitSolidifier ==
    /\ InitNoPeers
    /\ InitLaterIdle
    /\ InitHasherIdle
    /\ InitSolidifierIdle

Spec == InitHandshake /\ [][NextHandshake]_vars
SpecSession == InitSession /\ [][NextHandshake]_vars
SpecDisconnect == InitHandshake /\ [][NextDisconnect]_vars
SpecValidate == InitValidate /\ [][NextHandshake]_vars
SpecKick == InitKick /\ [][NextKick]_vars
SpecSolidifier == InitSolidifier /\ [][NextSolidifier]_vars
SpecHasher == InitHasher /\ [][NextHasher]_vars
SpecRequest == InitRequest /\ [][NextRequest]_vars
SpecTangle == InitTangle /\ [][NextTangle]_vars
SpecProtocol == InitProtocol /\ [][NextProtocol]_vars
SpecSenders == InitSenders /\ [][NextSenders]_vars
SpecMessage == InitMessage /\ [][NextMessage]_vars

\* a new, empty outgoing bundle builder; the hashes with the M-bug are fixed
InitBundle ==
    /\ InitNoPeers
    /\ InitSolidifierIdle
    /\ InitHasherIdle
    /\ InitRequestIdle
    /\ InitTangleStarted
    /\ InitProtocolNull
    /\ InitSendersNone
    /\ InitMessageNone
    /\ InitBusNone
    /\ bundle_builders = <<>>
    /\ bundle_stage = "raw"
    /\ bundle_pushed = <<>>
    /\ bundle_last = NoBundleCall
    /\ m_bug_tags \in MBugOracles

SpecBundle == InitBundle /\ [][NextBundle]_vars

\* Bus::default(): no listener; the hashing of the names into shards is fixed
InitBus ==
    /\ InitNoPeers
    /\ InitSolidifierIdle
    /\ InitHasherIdle
    /\ InitRequestIdle
    /\ InitTangleStarted
    /\ InitProtocolNull
    /\ InitSendersNone
    /\ InitMessageNone
    /\ InitBundleNone
    /\ bus_listeners = [e \in EventNames |-> <<>>]
    /\ bus_locks = {}
    /\ bus_stack = <<>>
    /\ bus_last = NoDispatch
    /\ bus_blocked = <<>>
    /\ same_shard \in BOOLEAN

SpecBus == InitBus /\ [][NextBus]_vars

(***************************************************************************)
(* Properties.                                                             *)
(***************************************************************************)
Promoted(c) == c \in DOMAIN handshaked_peers

\* C1 (as claimed): handshaked_peers holds at most one peer per resolved
\* address, and of two workers that handshake the same resolved address at
\* most one reaches Done.
C1_OnePeerPerAddress ==
    /\ \A e1, e2 \in DOMAIN handshaked_peers :
          handshaked_peers[e1] = handshaked_peers[e2] => e1 = e2
    /\ \A c1, c2 \in Conns :
          (c1 # c2 /\ status[c1] = "Done" /\ status[c2] = "Done")
             => resolved[c1] # resolved[c2]

\* the requests the Kickstart worker placed: entries with no designated peer
KickRequests == SelectSeq(milestone_requester, LAMBDA e : e[2] = NoEpid)

\* C2 (as claimed): a poll that did not observe the shutdown fires iff there
\* is a handshaked peer and latest - latest_solid > MS_BATCH_SIZE.
C2_FiresIffGapAboveBatch ==
    (kick_last # NoPoll /\ ~kick_last.shutdown) =>
       (kick_last.fired <=>
           (kick_last.peers >= 1 /\ kick_last.lm - kick_last.ls > MS_BATCH_SIZE))

\* C2 (amended): a poll that did not observe the shutdown fires iff there is
\* a handshaked peer and latest - latest_solid > MS_BATCH_SIZE + 1; a poll
\* that does not fire emits nothing and the worker keeps polling.
C2_FiresIffGapAboveBatchPlusOne ==
    (kick_last # NoPoll /\ ~kick_last.shutdown) =>
       /\ kick_last.fired <=>
             (kick_last.peers >= 1 /\ kick_last.lm - kick_last.ls > MS_BATCH_SIZE + 1)
       /\ ~kick_last.fired =>
             (kick_pc = "polling" /\ kick_log = <<>> /\ KickRequests = <<>>
              /\ milestone_solidifier_worker = <<>>)

\* C2 witness: a poll fired at the smallest gap that lets it
C2_Witness ==
    kick_last.fired /\ kick_last.lm - kick_last.ls = MS_BATCH_SIZE + 2

\* C3: a firing with latest solid index L first sends SetNextMilestone(L + 1),
\* then requests, with no designated peer, L + 1 .. L + MS_BATCH_SIZE in
\* increasing order and nothing else.
C3_KickstartEmits ==
    kick_last.fired =>
       LET L == kick_last.ls IN
       /\ Len(kick_log) = MS_BATCH_SIZE + 1
       /\ kick_log[1] = <<"SetNextMilestone", L + 1>>
       /\ \A i \in 1..MS_BATCH_SIZE :
             kick_log[i + 1] = <<"request_milestone", L + i, NoEpid>>
       /\ milestone_solidifier_worker = << <<"SetNextMilestone", L + 1>> >>
       /\ Len(KickRequests) = MS_BATCH_SIZE
       /\ \A i \in 1..MS_BATCH_SIZE : KickRequests[i] = <<L + i, NoEpid>>
       /\ (L = 100 => {KickRequests[i][1] : i \in 1..Len(KickRequests)} = 101..105)

\* C3 witness: the firing of scenario S1, latest solid 100 and latest 110
C3_Witness ==
    kick_last.fired /\ kick_last.ls = 100 /\ kick_last.lm = 110

\* C4: the Kickstart worker fires at most once; once stopped it stays stopped
\* and emits nothing more; stopped by a shutdown it observed before firing,
\* it has emitted nothing.
C4_KickstartOnce ==
    /\ [](/\ Len(kick_log) \in {0, MS_BATCH_SIZE + 1}
          /\ Len(milestone_solidifier_worker) <= 1
          /\ Len(KickRequests) <= MS_BATCH_SIZE
          /\ (kick_last.fired \/ kick_last.shutdown) => kick_pc = "stopped"
          /\ kick_last.shutdown =>
                (kick_log = <<>> /\ milestone_solidifier_worker = <<>> /\ KickRequests = <<>>))
    /\ [][kick_pc = "stopped" =>
            /\ kick_pc' = "stopped"
            /\ kick_log' = kick_log
            /\ milestone_solidifier_worker' = milestone_solidifier_worker
            /\ KickRequests' = KickRequests]_vars

\* C4 witness: the worker has fired and stopped, and the shutdown signal and
\* a further milestone came afterwards
C4_Witness ==
    /\ kick_pc = "stopped" /\ kick_last.fired /\ kick_shutdown
    /\ lmi > kick_last.lm

\* the worker of c has handled a decodable Handshake message
Validated(c) == cur[c].result \notin {"None", "Invalid"}
\* the Handshake it handled last
LastHandshake(c) == cur[c].msg.hs
\* the events of a kind in the calls of c
Calls(c, kind) == SelectSeq(log[c], LAMBDA e : e[1] = kind)
AbsDiff(a, b) == IF a >= b THEN a - b ELSE b - a

\* C5 (as claimed): the timestamp check never faults and rejects a Handshake
\* with InvalidTimestampDiff iff |local_time - peer_timestamp| exceeds the
\* window, for peer timestamps on both sides of the local clock; a rejected
\* peer is not promoted.
C5_TimestampWindow ==
    \A c \in Conns : Validated(c) =>
       /\ cur[c].result # "Panic"
       /\ cur[c].result = "InvalidTimestampDiff"
             <=> AbsDiff(LocalTime, LastHandshake(c).timestamp) > Window
       /\ cur[c].result = "InvalidTimestampDiff" => ~Promoted(c)

\* C6: a promoted connection's Handshake carries the configured coordinator
\* key and MWM and a supported version; a Handshake that passes the timestamp
\* check and violates one of them is rejected with CoordinatorMismatch,
\* MwmMismatch or UnsupportedVersion (the first violated, in this order), and
\* the connection is not promoted.
C6_KeyMwmVersion ==
    \A c \in Conns :
       LET h == LastHandshake(c)
           keyOk == h.coordinator = CooKey
           mwmOk == h.mwm = ConfMwm
           verOk == h.versions \cap MESSAGES_VERSIONS # {}
       IN
       /\ (pc[c] # "idle" /\ Promoted(c)) => (Validated(c) /\ keyOk /\ mwmOk /\ verOk)
       /\ (Validated(c) /\ cur[c].result \notin {"Panic", "InvalidTimestampDiff"}) =>
             /\ cur[c].result = "CoordinatorMismatch" <=> ~keyOk
             /\ cur[c].result = "MwmMismatch" <=> (keyOk /\ ~mwmOk)
             /\ cur[c].result = "UnsupportedVersion" <=> (keyOk /\ mwmOk /\ ~verOk)
       /\ cur[c].result \in {"CoordinatorMismatch", "MwmMismatch", "UnsupportedVersion"} =>
             (~Promoted(c) /\ status[c] = "Awaiting")

\* C6 witness: a Handshake with the right key and a wrong MWM was rejected
C6_Witness ==
    \E c \in Conns :
       /\ cur[c].result = "MwmMismatch"
       /\ LastHandshake(c).coordinator = CooKey
       /\ LastHandshake(c).versions \cap MESSAGES_VERSIONS # {}

\* the handshaked peers other than c's own
OtherPeers(c) == {e \in DOMAIN handshaked_peers : e # c}

\* C7: for a Handshake that passes the earlier checks, an Outbound peer is
\* rejected with PortMismatch iff the announced port differs from the dialled
\* one, and its resolved address is the dialled address; an Inbound peer is
\* never rejected for its port and resolves to (peer IP, announced port).  The
\* resolved address decides AlreadyHandshaked and is the address promoted.
C7_ResolvedAddress ==
    \A c \in Conns :
       (Validated(c) /\ cur[c].result \in {"PortMismatch", "AlreadyHandshaked", "Ok"}) =>
          LET h == LastHandshake(c)
              expected == IF peer[c].origin = "Outbound" THEN peer[c].address
                          ELSE [ip |-> peer[c].address.ip, port |-> h.port]
              mismatch == peer[c].origin = "Outbound" /\ peer[c].address.port # h.port
          IN
          /\ cur[c].result = "PortMismatch" <=> mismatch
          /\ cur[c].result = "AlreadyHandshaked" <=>
                (~mismatch /\ \E e \in OtherPeers(c) : handshaked_peers[e] = expected)
          /\ cur[c].result = "AlreadyHandshaked" => (status[c] = "Duplicate" /\ ~Promoted(c))
          /\ cur[c].result = "Ok" => resolved[c] = expected
          /\ Promoted(c) =>
                /\ handshaked_peers[c] = expected
                /\ Calls(c, "handshake") = << <<"handshake", peer[c].epid, expected>> >>

\* C7 witness: an Inbound peer was promoted under the port it announced, which
\* is not the port of its connection
C7_Witness ==
    \E c \in Conns :
       /\ peer[c].origin = "Inbound" /\ Promoted(c) /\ pc[c] # "idle"
       /\ handshaked_peers[c].port # peer[c].address.port
       /\ handshaked_peers[c].ip = peer[c].address.ip

\* C8 (as claimed): once a Handshake of a connection failed validation, the
\* connection's handshaker never reaches Done and its peer is never promoted.
C8_NoRecovery ==
    \A c \in Conns :
       Calls(c, "Err") # <<>> => (status[c] # "Done" /\ ~Promoted(c))

\* C9: a worker promotes, dispatches HandshakeCompleted(epid, address), sends
\* the heartbeat with the latest solid, pruning and latest indices, requests
\* the latest milestone from the peer and sets Done, in this order and each
\* once, only for a Handshake that validated; once Done it reads no further
\* message, and it spawns exactly one PeerWorker, as its last call.
C9_CompletionOrder ==
    /\ [](\A c \in Conns :
            LET e == peer[c].epid
                done == << <<"handshake", e, resolved[c]>>,
                           <<"HandshakeCompleted", e, resolved[c]>>,
                           <<"send_heartbeat", e, lsmi, pruning_index, lmi>>,
                           <<"request_latest_milestone", e>>,
                           <<"Done">> >>
                n == Len(log[c])
            IN
            /\ \A k \in {"handshake", "HandshakeCompleted", "send_heartbeat",
                         "request_latest_milestone", "Done", "PeerWorker"} :
                  Len(Calls(c, k)) <= 1
            /\ status[c] = "Done" <=> Calls(c, "Done") # <<>>
            /\ status[c] = "Done" =>
                  /\ cur[c].result = "Ok"
                  /\ pc[c] \in {"exit", "stopped"}
                  /\ \E i \in 1..(n - 4) : SubSeq(log[c], i, i + 4) = done
                  /\ \E i \in 1..n : log[c][i] = <<"request_latest_milestone", e>>
                  /\ \E i \in 1..Len(milestone_requester) : milestone_requester[i][1] = 0
            /\ (status[c] = "Done" /\ pc[c] = "exit") => log[c][n] = <<"Done">>
            /\ (status[c] = "Done" /\ pc[c] = "stopped") =>
                  (log[c][n] = <<"PeerWorker", e>> /\ log[c][n - 1] = <<"Done">>)
            /\ status[c] # "Done" => Calls(c, "PeerWorker") = <<>>)
    /\ [][\A c \in Conns : status[c] = "Done" =>
            (receiver'[c] = receiver[c] /\ cur'[c] = cur[c] /\ status'[c] = "Done")]_vars

\* C9 witness: a worker is Done and has handed over to its PeerWorker
C9_Witness ==
    \E c \in Conns : status[c] = "Done" /\ pc[c] = "stopped"

\* C10 (as claimed): a worker that stopped as Duplicate has issued a
\* disconnect of its endpoint to the network and has spawned no PeerWorker.
C10_DuplicateDisconnected ==
    \A c \in Conns :
       (status[c] = "Duplicate" /\ pc[c] = "stopped") =>
          /\ Calls(c, "DisconnectEndpoint") # <<>>
          /\ Calls(c, "PeerWorker") = <<>>

\* the message at the head of a connection's receiver is not a Handshake, or
\* is a Handshake whose bytes do not decode
InvalidHead(c) ==
    /\ receiver[c] # <<>>
    /\ Head(receiver[c]).type # HandshakeID \/ ~Head(receiver[c]).decodes

\* the worker of connection c takes the head message off its receiver
Reads(c) == pc[c] = "fetch" /\ receiver[c] # <<>> /\ receiver'[c] = Tail(receiver[c])

\* C11: while the handshaker is Awaiting, reading a message that is not a
\* Handshake or a Handshake that does not decode adds exactly one to the
\* invalid-messages metric, drops the message, leaves the status Awaiting and
\* the Peer Manager unchanged, and the worker goes on reading; reading a
\* Handshake that decodes leaves the metric alone.
C11_InvalidMessageCounted ==
    /\ [](\A c \in Conns : pc[c] = "fetch" => status[c] = "Awaiting")
    /\ [][\A c \in Conns :
            Reads(c) =>
               IF InvalidHead(c)
               THEN /\ invalid_messages' = invalid_messages + 1
                    /\ status'[c] = "Awaiting"
                    /\ handshaked_peers' = handshaked_peers
                    /\ pc'[c] = "fetch"
                    /\ resolved'[c] = resolved[c]
               ELSE invalid_messages' = invalid_messages]_vars

\* C11 witness: the worker has dropped a message that is no Handshake and a
\* Handshake that does not decode, and is reading on, still Awaiting
C11_Witness ==
    /\ invalid_messages = 2
    /\ pc["c1"] = "fetch"
    /\ status["c1"] = "Awaiting"
    /\ cur["c1"].result = "Invalid"
    /\ cur["c1"].msg.type = HandshakeID
    /\ handshaked_peers \in EarlierPeers

SortedDescending(q) == \A i, j \in DOMAIN q : i < j => q[i] > q[j]

\* C12: after any sequence of events the queue holds each index at most once
\* and is sorted (descending, so that pop takes the smallest pending index);
\* every index attempted was the smallest one pending when it was popped;
\* save_index adds the index of the event and nothing else, and leaves the
\* queue as it was when the index is already in it.
C12_QueueSortedUnique ==
    /\ SortedDescending(ms_queue)
    /\ SortedDescending(sol_last.saved)
    /\ \A k \in DOMAIN sol_last.attempts :
          \A x \in Range(sol_last.attempts[k].pending) : sol_last.attempts[k].index <= x
    /\ sol_last # NoSolEvent =>
          /\ Range(sol_last.saved) = Range(sol_last.before) \cup {sol_last.index}
          /\ sol_last.index \in Range(sol_last.before) => sol_last.saved = sol_last.before

\* C12 witness: an event brought an index that was already in a queue of two
C12_Witness ==
    /\ Len(sol_last.before) = 2
    /\ sol_last.index = sol_last.before[1]
    /\ ms_queue = sol_last.before

\* the indices the last event attempted
Attempted == {sol_last.attempts[k].index : k \in DOMAIN sol_last.attempts}

\* C13 (as claimed): an index is attempted only when it is the smallest in
\* the queue and equals next-expected, the loop stops at the first head that
\* differs and leaves it in the queue, and the indices attempted are strictly
\* increasing and consecutive.
C13_AttemptsStrictlyIncreasing ==
    /\ \A k \in DOMAIN sol_last.attempts :
          LET a == sol_last.attempts[k] IN
             /\ a.index = a.next_before
             /\ \A x \in Range(a.pending) : a.index <= x
    /\ Range(ms_queue) = Range(sol_last.saved) \ Attempted
    /\ ms_queue # <<>> => ms_queue[Len(ms_queue)] # next_ms_index
    /\ \A k \in 1..(Len(attempts) - 1) : attempts[k + 1] = attempts[k] + 1

\* C13 (amended): as claimed, except that the indices attempted never
\* decrease and never skip: each attempt is for the index attempted before or
\* for its successor.
C13_AttemptsNeverDecreaseNorSkip ==
    /\ \A k \in DOMAIN sol_last.attempts :
          LET a == sol_last.attempts[k] IN
             /\ a.index = a.next_before
             /\ \A x \in Range(a.pending) : a.index <= x
    /\ Range(ms_queue) = Range(sol_last.saved) \ Attempted
    /\ ms_queue # <<>> => ms_queue[Len(ms_queue)] # next_ms_index
    /\ \A k \in 1..(Len(attempts) - 1) :
          attempts[k + 1] = attempts[k] \/ attempts[k + 1] = attempts[k] + 1

\* C13 witness: index 1 was attempted twice, then one event attempted 1 and 2
\* and stopped at nothing left
C13_Witness ==
    /\ attempts = <<1, 1, 2>>
    /\ Len(sol_last.attempts) = 2
    /\ next_ms_index = 3

\* the walk of an attempt found nothing missing and only solid parents
WalkClean(a) ==
    /\ a.known
    /\ a.was_solid \/ (a.missing = <<>> /\ a.matched \subseteq {MilestoneHash(a.index)})

\* C14 (as claimed): an attempt for index i moves next-expected to i + 1 iff
\* milestone i is already solid or its walk found no missing transaction and
\* only solid ones; otherwise next-expected stays i.
C14_AdvanceIffSolid ==
    \A k \in DOMAIN sol_last.attempts :
       LET a == sol_last.attempts[k] IN
          /\ a.next_after = a.index + 1 <=> WalkClean(a)
          /\ ~WalkClean(a) => a.next_after = a.index

\* C15 (as claimed): an attempt for an index whose hash the tangle does not
\* know re-requests the milestone, ends the event, leaves next-expected alone
\* and keeps the index in the queue.
C15_UnknownHashRerequested ==
    \A k \in DOMAIN sol_last.attempts :
       LET a == sol_last.attempts[k] IN
          ~a.known =>
             /\ \E e \in Range(milestone_requester) : e[1] = a.index
             /\ k = Len(sol_last.attempts)
             /\ a.next_after = a.index
             /\ a.index \in Range(sol_last.after)

\* the Milestone Solidifier handles an event
SolidifierStep == sol_handled' # sol_handled

\* a sequence holds no element twice
NoDuplicates(q) == \A i, j \in DOMAIN q : q[i] = q[j] => i = j

\* what the claim lets the walk for target_hash descend into
MayDescend(hash, target_hash) ==
    /\ hash \notin solid
    /\ hash \notin DOMAIN requested_transactions
    /\ hash \notin requested_flag \/ hash = target_hash

\* C16: in the walk for milestone i a transaction of the tangle reached by the
\* walk is descended into exactly when it is not solid, not in
\* requested_transactions and not flagged requested (the flag is disregarded
\* for the milestone's own hash only); the hashes reported missing are the
\* parents the tangle does not hold, each once; request_transaction is called
\* once for each of them, with index i, and queues it; nothing is requested
\* when milestone i is already solid or its hash is unknown.
C16_WalkAndRequests ==
    [][SolidifierStep =>
         /\ \A k \in DOMAIN sol_last'.attempts :
              LET a == sol_last'.attempts[k]
                  target_hash == MilestoneHash(a.index)
                  walked == a.index \in milestones /\ target_hash \notin solid
                  reached == {target_hash} \cup
                             UNION {{trunk(h), branch(h)} : h \in a.matched}
              IN IF walked
                 THEN /\ a.matched = {h \in reached \cap vertices : MayDescend(h, target_hash)}
                      /\ Range(a.missing) = reached \ (vertices \cup {SolidEntryPoint})
                      /\ NoDuplicates(a.missing)
                      /\ a.requests = [j \in DOMAIN a.missing |-> <<a.missing[j], a.index>>]
                      /\ \A j \in DOMAIN a.missing :
                            \E e \in Range(transaction_requester') : e[1] = a.missing[j]
                 ELSE a.matched = {} /\ a.missing = <<>> /\ a.requests = <<>>
         /\ Range(transaction_requester') \ Range(transaction_requester) \subseteq
               UNION {Range(sol_last'.attempts[k].requests) : k \in DOMAIN sol_last'.attempts}
         /\ Len(transaction_requester') - Len(transaction_requester) =
               Cardinality(Range(transaction_requester') \ Range(transaction_requester))
      ]_vars

\* C16 witness: the walk for milestone 2, itself flagged requested, descended
\* into milestone 2 and milestone 1 and requested the one missing transaction
C16_Witness ==
    /\ Len(sol_last.attempts) = 1
    /\ sol_last.attempts[1].index = 2
    /\ MilestoneHash(2) \in requested_flag
    /\ sol_last.attempts[1].matched = {MilestoneHash(1), MilestoneHash(2)}
    /\ sol_last.attempts[1].requests = <<<<TailHash, 2>>>>
    /\ <<TailHash, 2>> \in Range(transaction_requester)

\* steps of the Hasher: poll_next yields a batch; the worker (not a sender,
\* not the node) takes a step; poll_next takes an event off the receiver;
\* trigger_hashing flushes the batch
HasherYields == hasher_pc = "poll" /\ hasher_pc' = "hash"
HasherWorkerStep ==
    hasher_pc' # hasher_pc \/ hasher_taken' # hasher_taken \/ hasher_last' # hasher_last
HasherTakes == hasher_taken' # hasher_taken
HasherFlushes == hasher_pc = "hash" /\ hasher_pc' = "poll"

\* C17: a yielded batch has the size of the buffered events, between 1 and
\* BATCH_SIZE; a batch is yielded exactly when it reaches BATCH_SIZE (no full
\* batch is left buffered) or when the receiver is pending with at least one
\* event buffered; with nothing buffered and the receiver pending the worker
\* does nothing.
C17_BatchSizes ==
    /\ [](hasher_pc = "hash" =>
             /\ hasher_last.kind = "yield"
             /\ hasher_last.batch_size = Len(events)
             /\ hasher_last.batch_size = Len(hasher)
             /\ hasher_last.batch_size \in 1..BATCH_SIZE)
    /\ [](hasher_pc = "poll" => Len(events) < BATCH_SIZE)
    /\ [][HasherYields =>
             \/ Len(events') = BATCH_SIZE
             \/ hasher_worker = <<>> /\ ~hasher_shutdown /\ Len(events') >= 1]_vars
    /\ [][(hasher_pc = "poll" /\ hasher_worker = <<>> /\ ~hasher_shutdown
                /\ HasherWorkerStep) =>
             (events # <<>> /\ HasherYields /\ events' = events)]_vars
    /\ [][(hasher_pc = "poll" /\ HasherWorkerStep /\ Len(events') = BATCH_SIZE) =>
             HasherYields]_vars

\* C17 witness: after a full batch was flushed the receiver is pending with
\* one event buffered, and that batch of one is yielded
C17_Witness ==
    /\ Len(processor_worker) = BATCH_SIZE
    /\ hasher_pc = "hash"
    /\ hasher_last.batch_size = 1
    /\ hasher_worker = <<>>

\* what the Processor is to get for an event: the hash of the event's own bytes
Reference(e) == [hash |-> CurlHash(Decode(e.bytes)), from |-> e.from, bytes |-> e.bytes]

Added == SelectSeq(hasher_taken, LAMBDA t : t.outcome = "added")
Known == SelectSeq(hasher_taken, LAMBDA t : t.outcome = "known")

C21_InvalidItemSkipped ==
    /\ hasher_pc # "panicked"
    /\ \A k \in DOMAIN hasher_taken :
          (~ValidEncoding(hasher_taken[k].bytes) /\ hasher_taken[k].outcome # "known")
             => hasher_taken[k].outcome = "invalid"

\* the requester queue the last request call went to
RequestedQueue ==
    IF req_last.kind = "milestone" THEN milestone_requester ELSE transaction_requester

\* the positions of a key in a requester queue
Pending(q, key) == {i \in DOMAIN q : q[i][1] = key}

StartPos(w) == CHOOSE i \in DOMAIN StartOrder : StartOrder[i] = w

\* the shutdown sends made to the eight workers with a one-shot sender
CoreSignals == SelectSeq(signals, LAMBDA e : e[1] \in CoreWorkers)

\* C24 (as claimed): Protocol::shutdown signals the core workers in the
\* reverse of the order Protocol::init started them in: of two workers
\* signalled, the one signalled first was started last.
C24_ShutdownReverseOfStart ==
    \A i, j \in DOMAIN CoreSignals :
        i < j => StartPos(CoreSignals[i][1]) > StartPos(CoreSignals[j][1])

\* a call of Protocol::init, shutdown or get is made in this step
ProtocolCalled(call) == proto_calls' # proto_calls /\ proto_last'.call = call

\* C29: Protocol::init called while the static is set changes neither the
\* singleton nor the senders, receivers, channels and spawns, so every worker
\* is spawned once per process; Protocol::get (and so Protocol::shutdown)
\* while the static is null panics.
C29_InitIdempotent ==
    /\ [](/\ PROTOCOL \in {0, 1}
          /\ channels = ChannelsPerInit * PROTOCOL
          /\ \A w \in Workers : spawned[w] = PROTOCOL
          /\ (PROTOCOL = 0 /\ proto_last.call \in {"get", "shutdown"})
                => proto_last.outcome = "panic")
    /\ [][(ProtocolCalled("init") /\ PROTOCOL # 0) =>
              /\ proto_last'.outcome = "already"
              /\ UNCHANGED <<PROTOCOL, worker_shutdown, worker_rx, spawned, channels,
                             signals>>]_vars

\* C29 witness: init, shutdown, then init again: the second init finds the
\* static set and leaves the taken senders as they are
C29_Witness ==
    /\ proto_last = ProtocolCall("init", "already", <<>>)
    /\ PROTOCOL = 1
    /\ \A w \in CoreWorkers : worker_shutdown[w] = "taken"
    /\ Len(CoreSignals) = 8

\* C30: over all calls of Protocol::shutdown each of the eight one-shot
\* signals is sent at most once, and a call sends to every worker whose
\* sender is still there, whether or not the sends before it failed.
C30_SignalsAtMostOnce ==
    /\ [](\A w \in CoreWorkers :
             Cardinality({i \in DOMAIN signals : signals[i][1] = w}) <= 1)
    /\ [][(ProtocolCalled("shutdown") /\ PROTOCOL # 0) =>
              \A w \in CoreWorkers :
                  /\ worker_shutdown'[w] = "taken"
                  /\ worker_shutdown[w] = "some" =>
                        \E i \in DOMAIN proto_last'.sent :
                            proto_last'.sent[i] = <<w, SendResult(worker_rx[w])>>]_vars

\* C30 witness: the TransactionWorker was gone at the first shutdown, its send
\* failed and the seven other sends were made; a second shutdown sent to none
\* of the eight
C30_Witness ==
    /\ proto_last.call = "shutdown"
    /\ \A i \in DOMAIN proto_last.sent : proto_last.sent[i][1] = "status"
    /\ Len(CoreSignals) = 8
    /\ CoreSignals[1] = <<"transaction", "err">>
    /\ \A i \in 2..8 : CoreSignals[i][2] = "ok"

\* C25: senders_add registers under the peer's endpoint id a new context of
\* four senders (milestone-request, transaction-broadcast, transaction-request,
\* heartbeat), each with its own channel, one-shot shutdown and worker, and
\* leaves the other peers alone; senders_remove for a registered id removes
\* the context and sends the four shutdowns, whatever the result of each;
\* senders_remove for an unknown id changes nothing.
C25_SendersAddRemove ==
    [][senders_calls' # senders_calls =>
          LET e == senders_last'.epid
              old == contexts[e]
          IN  /\ \A o \in Conns \ {e} : contexts'[o] = contexts[o]
              /\ senders_last'.call = "add" =>
                    /\ contexts'[e] = Len(sender_workers) + 1
                    /\ Len(sender_workers') = Len(sender_workers) + 1
                    /\ sender_workers'[contexts'[e]].epid = e
                    /\ Cardinality(DOMAIN sender_workers'[contexts'[e]].rx) = 4
                    /\ \A k \in Range(SenderKinds) :
                          /\ sender_workers'[contexts'[e]].rx[k] = "alive"
                          /\ sender_workers'[contexts'[e]].shutdown[k] = "some"
              /\ (senders_last'.call = "remove" /\ old # 0) =>
                    /\ contexts'[e] = 0
                    /\ Len(senders_last'.sent) = 4
                    /\ \A i \in 1..4 :
                          senders_last'.sent[i] =
                             <<SenderKinds[i], SendResult(sender_workers[old].rx[SenderKinds[i]])>>
              /\ (senders_last'.call = "remove" /\ old = 0) =>
                    /\ UNCHANGED <<contexts, sender_workers>>
                    /\ senders_last'.sent = <<>>]_vars

\* C25 witness: two peers were added, the milestone-request sender of the
\* first ended on its own, and senders_remove for the first failed to signal
\* it and signalled the three others; the second peer is still registered
C25_Witness ==
    /\ senders_last.call = "remove"
    /\ senders_last.epid = "c1"
    /\ senders_last.sent = <<<<"milestone_request", "err">>, <<"transaction_broadcast", "ok">>,
                             <<"transaction_request", "ok">>, <<"heartbeat", "ok">>>>
    /\ contexts["c1"] = 0
    /\ contexts["c2"] # 0

\* the bytes of a buffer from offset at (0-based), len of them
Field(b, at, len) == SubSeq(b, at + 1, at + len)

\* a u32 written most significant byte first
BigEndian(b, v) ==
    /\ Len(b) = 4
    /\ \A i \in 1..4 : b[i] \in 0..255
    /\ b[1] * 256 + b[2] = v[1]
    /\ b[3] * 256 + b[4] = v[2]

\* C26: a Heartbeat is written as 14 bytes, latest-solid, pruned, latest (each
\* four bytes, big-endian), connected-peers, synced-peers, and a
\* MilestoneRequest as the four big-endian bytes of its index; size() is the
\* number of bytes written, size_range() holds that length and no other, and
\* from_bytes of what into_bytes wrote gives back every field.
C26_RoundTrip ==
    /\ message_pc \in {"written", "read"} =>
          /\ Len(wire) = size(message_from)
          /\ size_range(message_from.kind) = {Len(wire)}
          /\ message_from.kind = "Heartbeat" =>
                /\ Len(wire) = 14
                /\ BigEndian(Field(wire, 0, 4), message_from.latest_solid_milestone_index)
                /\ BigEndian(Field(wire, 4, 4), message_from.pruned_index)
                /\ BigEndian(Field(wire, 8, 4), message_from.latest_milestone_index)
                /\ Field(wire, 12, 1) = <<message_from.connected_peers>>
                /\ Field(wire, 13, 1) = <<message_from.synced_peers>>
          /\ message_from.kind = "MilestoneRequest" =>
                /\ Len(wire) = 4
                /\ BigEndian(wire, message_from.index)
    /\ (message_pc = "read" /\ message_from # NoMessage) => message_to = message_from

\* C26 witness: the Heartbeat of the unit test, with five different fields,
\* has been written and read back
C26_Witness ==
    /\ message_pc = "read"
    /\ message_from = Heartbeat(<<280, 8091>>, <<33271, 57212>>, <<0, 1>>, 12, 255)
    /\ wire = <<1, 24, 31, 155, 129, 247, 223, 124, 0, 0, 0, 1, 12, 255>>
    /\ message_to = message_from

\* the variants of HandshakeError
HandshakeErrors ==
    {"InvalidTimestampDiff", "CoordinatorMismatch", "MwmMismatch", "UnsupportedVersion",
     "PortMismatch", "AlreadyHandshaked"}

\* connection c processes a Handshake that validate_handshake rejects
HandshakeRejected(c) ==
    /\ pc[c] = "fetch"
    /\ receiver'[c] # receiver[c]
    /\ cur'[c].result \in HandshakeErrors

\* C27: processing a Handshake that fails validation leaves the handshaked
\* peers and the milestone requester as they are and makes none of the calls
\* of a completed handshake (only the error is logged); the status becomes
\* Duplicate for AlreadyHandshaked and stays Awaiting for every other error.
C27_RejectedHandshakeFrame ==
    [][\A c \in Conns : HandshakeRejected(c) =>
          /\ handshaked_peers' = handshaked_peers
          /\ milestone_requester' = milestone_requester
          /\ log'[c] = Append(log[c], <<"Err", cur'[c].result>>)
          /\ status[c] = "Awaiting"
          /\ status'[c] = IF cur'[c].result = "AlreadyHandshaked" THEN "Duplicate"
                          ELSE "Awaiting"]_vars

\* C27 witness: an outbound connection whose port the Handshake does not name
\* has been rejected and still awaits; nothing but the worker's own Handshake
\* and the error is in its log
C27_Witness ==
    /\ cur["c1"].result = "PortMismatch"
    /\ status["c1"] = "Awaiting"
    /\ log["c1"] = <<<<"SendMessage", HandshakeID>>, <<"Err", "PortMismatch">>>>
    /\ handshaked_peers \in EarlierPeers
    /\ milestone_requester = <<>>

\* the receiver of the BatchStream has ended and the stream is polled
StreamEnded == hasher_pc = "poll" /\ hasher_shutdown

\* C28: once the receiver has ended, the next poll ends the BatchStream, with
\* the pending batch neither hashed nor forwarded, and after the end nothing
\* is forwarded and the events of the pending batch stay where they are.
C28_EndWithoutHashing ==
    /\ [][(StreamEnded /\ HasherWorkerStep) =>
              /\ hasher_pc' = "stopped"
              /\ hasher_last'.kind = "end"
              /\ UNCHANGED <<processor_worker, events, hasher>>]_vars
    /\ [][hasher_pc = "stopped" =>
              /\ hasher_pc' = "stopped"
              /\ UNCHANGED <<processor_worker, events, hasher>>]_vars
    /\ [](hasher_pc = "stopped" =>
              Len(processor_worker) + Len(events) = Len(Added))

\* C28 witness: one batch was forwarded, two more events were accepted into
\* the next batch, a further event waits on the channel, and the stream has
\* ended
C28_Witness ==
    /\ hasher_pc = "stopped"
    /\ processor_worker # <<>>
    /\ Len(events) = 2
    /\ hasher_worker # <<>>


(***************************************************************************)
(* Claims about the outgoing bundle builder.                               *)
(***************************************************************************)
\* the last call was `op`
BundleCalled(op) == bundle_last.op = op

\* seal finds payload, address, value and tag in every pushed builder
AllSealFields(tbs) ==
    \A k \in 1..Len(tbs) :
        ~IsNone(tbs[k].payload) /\ ~IsNone(tbs[k].address)
        /\ ~IsNone(tbs[k].value) /\ ~IsNone(tbs[k].tag)

\* the exact sum of the values of the first k transactions
RECURSIVE PartialSum(_, _)
PartialSum(tbs, k) == IF k = 0 THEN 0 ELSE PartialSum(tbs, k - 1) + Unwrap(tbs[k].value)

Exceeds(x) == x > IOTA_SUPPLY \/ -x > IOTA_SUPPLY
SumsFine(tbs) ==
    /\ PartialSum(tbs, Len(tbs)) = 0
    /\ \A k \in 1..Len(tbs) : ~Exceeds(PartialSum(tbs, k))
\* the first partial sum beyond the supply, or else the final sum
OffendingSum(tbs) ==
    IF \E k \in 1..Len(tbs) : Exceeds(PartialSum(tbs, k))
    THEN PartialSum(tbs, CHOOSE k \in 1..Len(tbs) :
                             /\ Exceeds(PartialSum(tbs, k))
                             /\ \A j \in 1..(k - 1) : ~Exceeds(PartialSum(tbs, j)))
    ELSE PartialSum(tbs, Len(tbs))

\* C31: seal succeeds only if every pushed transaction has its fields, the
\* values sum to zero and no partial sum, in push order, is beyond the
\* supply; then transaction k carries index k and last_index n-1.  When the
\* fields are there and the sums are not fine, seal returns InvalidValue with
\* the first offending partial sum, or the final sum, and leaves no builder.
C31_SealChecksSums ==
    (BundleCalled("seal") /\ bundle_last.before # <<>>) =>
        /\ bundle_last.result = "Ok" =>
              /\ AllSealFields(bundle_last.before)
              /\ SumsFine(bundle_last.before)
              /\ bundle_stage = "sealed"
              /\ Len(bundle_builders) = Len(bundle_pushed)
              /\ \A k \in 1..Len(bundle_builders) :
                    /\ bundle_builders[k].index = Some(k - 1)
                    /\ bundle_builders[k].last_index = Some(Len(bundle_pushed) - 1)
        /\ (AllSealFields(bundle_last.before) /\ ~SumsFine(bundle_last.before)) =>
              /\ bundle_last.result = "InvalidValue"
              /\ bundle_last.sum = OffendingSum(bundle_last.before)
              /\ bundle_stage = "gone"
              /\ bundle_builders = <<>>

\* a seal refused for a negative partial sum beyond the supply, the sum of all
\* values being within it
C31_Witness ==
    /\ BundleCalled("seal")
    /\ Len(bundle_last.before) = MaxBundle
    /\ AllSealFields(bundle_last.before)
    /\ bundle_last.result = "InvalidValue"
    /\ bundle_last.sum < -IOTA_SUPPLY
    /\ ~Exceeds(PartialSum(bundle_last.before, MaxBundle))

\* C32 (as claimed): seal on a builder into which nothing was pushed returns
\* Err(Empty), and computing len - 1 neither faults nor wraps on the way.
C32_EmptySealReturnsEmpty ==
    (BundleCalled("seal") /\ bundle_last.before = <<>>) =>
        /\ bundle_last.result = "Empty"
        /\ ~bundle_last.wrapped

\* the stages in the order the builder goes through them
StageOrder == <<"raw", "sealed", "signed", "attached", "built">>
StageNo(st) == CHOOSE i \in DOMAIN StageOrder : StageOrder[i] = st
Spends(tbs) == \E k \in 1..Len(tbs) : Unwrap(tbs[k].value) < 0

\* C33: the stages follow raw, sealed, signed, attached, built, where only
\* signing may be skipped; a sealed bundle is attached directly exactly when
\* no transaction has a negative value, and otherwise the attach returns
\* UnsignedInput and leaves no builder; a built bundle has as many
\* transactions as were pushed.
C33_AttachWithoutSigning ==
    /\ [](/\ (BundleCalled("attach") /\ bundle_last.field = "sealed") =>
                /\ (bundle_last.result = "Ok") <=> ~Spends(bundle_last.before)
                /\ Spends(bundle_last.before) =>
                      /\ bundle_last.result = "UnsignedInput"
                      /\ bundle_stage = "gone"
                      /\ bundle_builders = <<>>
                /\ ~Spends(bundle_last.before) =>
                      /\ bundle_stage = "attached"
                      /\ bundle_builders = bundle_last.before
          /\ (BundleCalled("build") /\ bundle_last.result = "Ok") =>
                /\ bundle_stage = "built"
                /\ Len(bundle_builders) = Len(bundle_pushed))
    /\ [][(bundle_stage' # bundle_stage /\ bundle_stage' \notin {"gone", "panicked"}) =>
             \/ StageNo(bundle_stage') = StageNo(bundle_stage) + 1
             \/ (bundle_stage = "sealed" /\ bundle_stage' = "attached")]_vars

\* a sealed bundle with an input was refused by attach
C33_Witness ==
    /\ BundleCalled("attach")
    /\ bundle_last.field = "sealed"
    /\ bundle_last.result = "UnsignedInput"
    /\ Len(bundle_pushed) = MaxBundle

\* the lowest position of a transaction with negative value
FirstInput(tbs) ==
    CHOOSE k \in 1..Len(tbs) :
        /\ Unwrap(tbs[k].value) < 0
        /\ \A j \in 1..(k - 1) : ~(Unwrap(tbs[j].value) < 0)

\* C34 (as claimed): sign writes fragment j into the payload of the j-th
\* transaction counted from the first input, changes no other payload, and
\* with no inputs changes no payload.
C34_FragmentsFromFirstInput ==
    (BundleCalled("sign") /\ bundle_last.result = "Ok") =>
        /\ bundle_last.fragments = <<>> => bundle_builders = bundle_last.before
        /\ (/\ Spends(bundle_last.before)
            /\ FirstInput(bundle_last.before) + Len(bundle_last.fragments) - 1
                   <= Len(bundle_last.before)) =>
              \A k \in 1..Len(bundle_builders) :
                  LET j == k - FirstInput(bundle_last.before) + 1
                  IN  bundle_builders[k].payload =
                          IF j \in 1..Len(bundle_last.fragments)
                          THEN Some(bundle_last.fragments[j])
                          ELSE bundle_last.before[k].payload

\* C39 (as claimed): after a successful seal all transactions carry one
\* bundle hash and one obsolete tag, the hash has no group of three +1
\* trits, and the stored hash is the (normalized) sponge hash of the
\* essences of the transactions as they stand after seal.
C39_HashOfSealedEssences ==
    (BundleCalled("seal") /\ bundle_last.result = "Ok") =>
        /\ \A k \in 1..Len(bundle_builders) :
              /\ bundle_builders[k].bundle = bundle_builders[1].bundle
              /\ bundle_builders[k].obsolete_tag = bundle_builders[1].obsolete_tag
        /\ ~has_m_bug(bundle_builders, m_bug_tags)
        /\ \/ Unwrap(bundle_builders[1].bundle) = normalize_hash(SpongeHash(bundle_builders))
           \/ Unwrap(bundle_builders[1].bundle) = SpongeHash(bundle_builders)


(***************************************************************************)
(* Claims about the event bus.                                             *)
(***************************************************************************)
\* C35: a dispatch of E that returns has invoked the listeners registered
\* for E, each once and in registration order, and no other listener, and
\* a dispatch under way has invoked the first of them in that order; a
\* dispatch of an event without listener invokes nothing and changes nothing.
C35_DispatchRunsListeners ==
    /\ [](/\ bus_last.ran = bus_last.registered
          /\ \A f \in 1..Len(bus_stack) :
                /\ bus_stack[f].pos - 1 <= Len(bus_listeners[bus_stack[f].event])
                /\ bus_stack[f].ran = SubSeq(Ids(bus_listeners[bus_stack[f].event]), 1,
                                             bus_stack[f].pos - 1)
          /\ \A k \in 1..Len(bus_last.ran) :
                \E j \in 1..Len(bus_listeners[bus_last.event]) :
                    bus_listeners[bus_last.event][j].id = bus_last.ran[k])
    /\ [][\A e \in EventNames :
             (bus_stack = <<>> /\ bus_listeners[e] = <<>> /\ bus_last' # bus_last
                 /\ bus_last'.event = e)
             => (bus_last'.ran = <<>> /\ UNCHANGED <<bus_listeners, bus_locks, bus_stack>>)]_vars

\* a dispatch returned after two listeners, a third one being registered
\* for the other event
C35_Witness ==
    /\ bus_last.event = "foo"
    /\ Len(bus_last.ran) = 2
    /\ Len(bus_listeners["bar"]) = 1
    /\ bus_stack = <<>>

\* C40 (as claimed): a listener that calls dispatch or add_listener for the
\* event being dispatched never waits for a lock the dispatch holds.
C40_DispatchReentrant ==
    ~(bus_blocked # <<>> /\ bus_blocked[1] = bus_blocked[2])


(***************************************************************************)
(* Further claims about the Milestone Solidifier.                          *)
(***************************************************************************)
\* C36: next_ms_index never decreases; it changes only in the attempts made
\* while an event is processed, each attempt being on the index that is
\* next_ms_index at that moment and leaving it as it is or one higher; an
\* event for an index other than next_ms_index leaves it unchanged.
C36_NextIndexStepsByOne ==
    [][/\ next_ms_index' >= next_ms_index
       /\ next_ms_index' # next_ms_index =>
             /\ SolidifierStep
             /\ sol_last'.index = next_ms_index
             /\ sol_last'.attempts # <<>>
             /\ sol_last'.attempts[1].next_before = next_ms_index
             /\ sol_last'.attempts[Len(sol_last'.attempts)].next_after = next_ms_index'
       /\ SolidifierStep =>
             \A k \in DOMAIN sol_last'.attempts :
                LET a == sol_last'.attempts[k]
                IN  /\ a.index = a.next_before
                    /\ a.next_after \in {a.next_before, a.next_before + 1}
                    /\ k > 1 => a.next_before = sol_last'.attempts[k - 1].next_after]_vars

\* one event brought next_ms_index forward twice, by two attempts
C36_Witness ==
    /\ Len(sol_last.attempts) >= 2
    /\ sol_last.attempts[1].next_after = sol_last.attempts[1].next_before + 1
    /\ next_ms_index = sol_last.attempts[1].next_before + 2

\* C37 (as claimed): an event for index n processed while next_ms_index = n
\* and milestone n is known and not solid triggers the solidification of n
\* while it is processed, whatever else the queue holds.
C37_ExpectedIndexTriggered ==
    [][(/\ SolidifierStep
        /\ sol_last'.index = next_ms_index
        /\ next_ms_index \in milestones
        /\ MilestoneHash(next_ms_index) \notin solid) =>
           \E k \in DOMAIN sol_last'.attempts :
              /\ sol_last'.attempts[k].index = next_ms_index
              /\ sol_last'.attempts[k].known
              /\ ~sol_last'.attempts[k].was_solid]_vars


(***************************************************************************)
(* A further claim about the handshaker.                                   *)
(***************************************************************************)
\* C38 (as claimed): a handshaker that left its message loop with status
\* Done finds its peer's endpoint id in handshaked_peers when it builds the
\* PeerWorker, and so never fails there, also when the peer is removed from
\* the Peer Manager in the meantime.
C38_PeerPresentAtSpawn ==
    \A c \in Conns :
        /\ (pc[c] = "exit" /\ status[c] = "Done") => peer[c].epid \in DOMAIN handshaked_peers
        /\ (pc[c] = "panicked" /\ status[c] = "Done") => cur[c].result = "Panic"

====
